---------------------------- MODULE Spec2Model ----------------------------
(***************************************************************************)
(* Model of the in-memory DynamoDB engine of model-ts (packages/dynamodb): *)
(* the deterministic treap, the table state with its indexes, the document *)
(* client operations and the change tracker of createTrackedDocClient.     *)
(*                                                                         *)
(* Strings are sequences of UTF-16 code units (naturals), so that the key  *)
(* encodings are real concatenations and `<` on strings is the code-unit   *)
(* lexicographic order JavaScript uses.                                    *)
(***************************************************************************)
EXTENDS Integers, Sequences, FiniteSets, TLC

VARIABLES
    itemStore,    \* InMemoryTableState.itemStore: encoded item key -> item
    indexes,      \* InMemoryTableState.indexes: index name -> hash key -> treap
    isTracking,   \* createTrackedDocClient: isTracking
    trackedKeys,  \* createTrackedDocClient: trackedKeys, in insertion order
    inflight,     \* the requests of the proxy whose promise is pending
    startStore,   \* history: itemStore when startTracking was last called
    written,      \* history: keys written through the proxy since the last startTracking
    result        \* history: outcome of the last operation

vars == <<itemStore, indexes, isTracking, trackedKeys, inflight, startStore, written, result>>

-----------------------------------------------------------------------------
(* Strings *)

NUL == 0            \* "\u0000"
CH_COLON == 58      \* ":"
CH_ZERO == 48       \* "0"
CH_UNDERSCORE == 95 \* "_"

Min(a, b) == IF a < b THEN a ELSE b

\* JavaScript's a < b on strings: the first differing code unit decides, a
\* proper prefix is smaller.
StrLt(a, b) ==
    LET n == Min(Len(a), Len(b))
        diff == {i \in 1..n : a[i] # b[i]}
    IN IF diff = {}
       THEN Len(a) < Len(b)
       ELSE LET i == CHOOSE j \in diff : \A k \in diff : j <= k
            IN a[i] < b[i]

\* String(n) for a natural number n (a length).
RECURSIVE Digits(_)
Digits(n) ==
    IF n < 10 THEN <<CH_ZERO + n>>
    ELSE Digits(n \div 10) \o <<CH_ZERO + (n % 10)>>

RECURSIVE Join(_, _)
Join(parts, sep) ==
    IF Len(parts) = 0 THEN <<>>
    ELSE IF Len(parts) = 1 THEN parts[1]
    ELSE parts[1] \o sep \o Join(Tail(parts), sep)

ITEM_KEY_SEPARATOR == <<NUL>>

\* The parts joined without their lengths.
encodeCompositeKeyPlain(parts) == Join(parts, ITEM_KEY_SEPARATOR)

\* Each part as `${part.length}:${part}`, joined by the separator.
encodeCompositeKey(parts) ==
    Join([i \in 1..Len(parts) |-> Digits(Len(parts[i])) \o <<CH_COLON>> \o parts[i]],
         ITEM_KEY_SEPARATOR)

encodeItemKey(pk, sk) == encodeCompositeKey(<<pk, sk>>)

encodeIndexEntryKey(rangeKey, itemKey) == rangeKey \o ITEM_KEY_SEPARATOR \o itemKey

\* stablePriority hashes `${indexName}::${hashKey}::${rangeKey}::${itemKey}` with
\* SHA-256 and reads its first 32 bits as an unsigned number. The digest is
\* modelled by a polynomial hash of the same string, which is likewise a function
\* of the content only; it is kept below 2^24 so that every intermediate product
\* fits the model checker's integers.
PRIORITY_MOD == 16777216

RECURSIVE HashChars(_, _, _)
HashChars(s, i, h) ==
    IF i > Len(s) THEN h
    ELSE HashChars(s, i + 1, (h * 31 + s[i]) % PRIORITY_MOD)

stablePriority(indexName, hashKey, rangeKey, itemKey) ==
    LET sep == <<CH_COLON, CH_COLON>>
    IN HashChars(indexName \o sep \o hashKey \o sep \o rangeKey \o sep \o itemKey, 1, 7)

-----------------------------------------------------------------------------
(* Attribute values and items *)

\* A value is tagged with its JavaScript type: "S" string, "N" number,
\* "U" undefined.
S(str) == [t |-> "S", s |-> str, n |-> 0]
N(k) == [t |-> "N", s |-> <<>>, n |-> k]
U == [t |-> "U", s |-> <<>>, n |-> 0]

IsString(item, attr) == attr \in DOMAIN item /\ item[attr].t = "S"

\* A binary value: a Buffer of the given bytes.
B(bytes) == [t |-> "B", s |-> bytes, n |-> 0]

\* A list of numbers: s holds its elements.
L(elements) == [t |-> "L", s |-> elements, n |-> 0]

\* The identity of an object, where it matters which object a value is: an
\* item carries it as a symbol-keyed property, a map holds it in n (0 when
\* it does not matter).  An object the caller made has a number, an object
\* of the store is known by the item key it is stored under.
OBJECT_ID == "SymbolId"
ID(n, itemKey) == [t |-> "ID", s |-> itemKey, n |-> n]

\* JSON.parse(JSON.stringify(value)): a string or number comes back as it
\* was, a Buffer as the map {type: "Buffer", data: [...]} of its toJSON, a
\* map as a new map.
jsonValue(value) ==
    IF value.t \in {"B", "M"} THEN [t |-> "M", s |-> value.s, n |-> 0] ELSE value

\* The item itself, where a clone should have been made.
sameItem(item) == item

\* JSON.parse(JSON.stringify(item)): a new object; properties holding
\* undefined and symbol-keyed properties are dropped.
cloneItem(item) ==
    [a \in {b \in DOMAIN item : item[b].t \notin {"U", "ID"}} |-> jsonValue(item[a])]

\* The absent item / absent value (JavaScript undefined or null).
Null == [null |-> TRUE]

-----------------------------------------------------------------------------
(* DeterministicTreap: a node is <<key, priority, value, left, right>>, the   *)
(* empty tree is <<>>.                                                        *)

Nil == <<>>
Node(key, priority, value, left, right) == <<key, priority, value, left, right>>
NKey(n) == n[1]
NPri(n) == n[2]
NVal(n) == n[3]
NLeft(n) == n[4]
NRight(n) == n[5]

\* node.left = left / node.right = right
withLeft(node, left) == Node(NKey(node), NPri(node), NVal(node), left, NRight(node))
withRight(node, right) == Node(NKey(node), NPri(node), NVal(node), NLeft(node), right)

rotateRight(node) ==
    IF NLeft(node) = Nil THEN node
    ELSE withRight(NLeft(node), withLeft(node, NRight(NLeft(node))))

rotateLeft(node) ==
    IF NRight(node) = Nil THEN node
    ELSE withLeft(NRight(node), withRight(node, NLeft(NRight(node))))

\* insertNode that never rotates.
liftNever(node) == node

\* insertNode after the recursive call: the child that now has the smaller
\* priority is rotated above the node.
liftLeft(node) ==
    IF NLeft(node) # Nil /\ NPri(NLeft(node)) < NPri(node) THEN rotateRight(node) ELSE node

liftRight(node) ==
    IF NRight(node) # Nil /\ NPri(NRight(node)) < NPri(node) THEN rotateLeft(node) ELSE node

\* Returns <<node, inserted>>.  An equal key has its value replaced.
RECURSIVE insertNode(_, _, _, _)
insertNode(node, key, value, priority) ==
    IF node = Nil THEN <<Node(key, priority, value, Nil, Nil), TRUE>>
    ELSE IF key = NKey(node)
    THEN <<Node(NKey(node), NPri(node), value, NLeft(node), NRight(node)), FALSE>>
    ELSE IF StrLt(key, NKey(node))
    THEN LET link(r) == <<liftLeft(withLeft(node, r[1])), r[2]>>
         IN link(insertNode(NLeft(node), key, value, priority))
    ELSE LET link(r) == <<liftRight(withRight(node, r[1])), r[2]>>
         IN link(insertNode(NRight(node), key, value, priority))

\* Returns <<node, removed>>.
RECURSIVE removeNode(_, _)
removeNode(node, key) ==
    IF node = Nil THEN <<Nil, FALSE>>
    ELSE IF StrLt(key, NKey(node))
    THEN LET link(r) == <<withLeft(node, r[1]), r[2]>>
         IN link(removeNode(NLeft(node), key))
    ELSE IF StrLt(NKey(node), key)
    THEN LET link(r) == <<withRight(node, r[1]), r[2]>>
         IN link(removeNode(NRight(node), key))
    ELSE IF NLeft(node) = Nil THEN <<NRight(node), TRUE>>
    ELSE IF NRight(node) = Nil THEN <<NLeft(node), TRUE>>
    ELSE IF NPri(NLeft(node)) < NPri(NRight(node))
    THEN LET sink(rotated) ==
                 LET link(r) == <<withRight(rotated, r[1]), r[2]>>
                 IN link(removeNode(NRight(rotated), key))
         IN sink(rotateRight(node))
    ELSE LET sink(rotated) ==
                 LET link(r) == <<withLeft(rotated, r[1]), r[2]>>
                 IN link(removeNode(NLeft(rotated), key))
         IN sink(rotateLeft(node))

EmptyTreap == [root |-> Nil, size |-> 0]

TreapInsert(tree, key, value, priority) ==
    LET grown(r) == [root |-> r[1], size |-> IF r[2] THEN tree.size + 1 ELSE tree.size]
    IN grown(insertNode(tree.root, key, value, priority))

TreapRemove(tree, key) ==
    LET shrunk(r) == [root |-> r[1], size |-> IF r[2] THEN tree.size - 1 ELSE tree.size]
    IN shrunk(removeNode(tree.root, key))

\* The entries of a tree in ascending key order, as <<key, value>> pairs.
RECURSIVE InOrder(_)
InOrder(node) ==
    IF node = Nil THEN <<>>
    ELSE InOrder(NLeft(node)) \o <<<<NKey(node), NVal(node)>>>> \o InOrder(NRight(node))

-----------------------------------------------------------------------------
(* InMemoryTableState *)

GSI_NAMES == <<"GSI2">>

PRIMARY_INDEX_NAME == "primary"

\* The characters of an index name, as stablePriority reads them.
IndexNameChars(name) ==
    IF name = "primary" THEN <<112, 114, 105, 109, 97, 114, 121>>
    ELSE <<71, 83, 73, 50>>

INDEX_DESCRIPTORS ==
    <<[name |-> PRIMARY_INDEX_NAME, hashAttribute |-> "PK", rangeAttribute |-> "SK"]>>
    \o [i \in 1..Len(GSI_NAMES) |->
          [name |-> GSI_NAMES[i],
           hashAttribute |-> "GSI2PK",
           rangeAttribute |-> "GSI2SK"]]

IndexNames == {INDEX_DESCRIPTORS[i].name : i \in 1..Len(INDEX_DESCRIPTORS)}

Upd(f, k, v) == [x \in DOMAIN f \cup {k} |-> IF x = k THEN v ELSE f[x]]
Del(f, k) == [x \in DOMAIN f \ {k} |-> f[x]]

EmptyTable == [itemStore |-> <<>>, indexes |-> [n \in IndexNames |-> <<>>]]

\* Null when the index's hash or range attribute is absent or not a string.
getIndexKeyFromItem(descriptor, item) ==
    IF IsString(item, descriptor.hashAttribute) /\ IsString(item, descriptor.rangeAttribute)
    THEN [hash |-> item[descriptor.hashAttribute].s, range |-> item[descriptor.rangeAttribute].s]
    ELSE Null

\* The body of the loop of addToIndexes for one descriptor.
addToIndex(idx, descriptor, projected, itemKey) ==
    IF projected = Null THEN idx
    ELSE [idx EXCEPT ![descriptor.name] =
            Upd(@, projected.hash,
                TreapInsert(IF projected.hash \in DOMAIN @ THEN @[projected.hash]
                            ELSE EmptyTreap,
                            encodeIndexEntryKey(projected.range, itemKey), itemKey,
                            stablePriority(IndexNameChars(descriptor.name), projected.hash,
                                           projected.range, itemKey)))]

RECURSIVE addToIndexesFrom(_, _, _, _)
addToIndexesFrom(idx, itemKey, item, i) ==
    IF i > Len(INDEX_DESCRIPTORS) THEN idx
    ELSE addToIndexesFrom(
             addToIndex(idx, INDEX_DESCRIPTORS[i],
                        getIndexKeyFromItem(INDEX_DESCRIPTORS[i], item), itemKey),
             itemKey, item, i + 1)

addToIndexes(idx, itemKey, item) == addToIndexesFrom(idx, itemKey, item, 1)

\* if (tree.size === 0) partitionMap.delete(hash)
dropEmpty(partitionMap, hash, tree) ==
    IF tree.size = 0 THEN Del(partitionMap, hash) ELSE Upd(partitionMap, hash, tree)

\* The body of the loop of removeFromIndexes for one descriptor.
removeFromIndex(idx, descriptor, projected, itemKey) ==
    IF projected = Null THEN idx
    ELSE IF projected.hash \notin DOMAIN idx[descriptor.name] THEN idx
    ELSE [idx EXCEPT ![descriptor.name] =
            dropEmpty(@, projected.hash,
                      TreapRemove(@[projected.hash],
                                  encodeIndexEntryKey(projected.range, itemKey)))]

RECURSIVE removeFromIndexesFrom(_, _, _, _)
removeFromIndexesFrom(idx, itemKey, item, i) ==
    IF i > Len(INDEX_DESCRIPTORS) THEN idx
    ELSE removeFromIndexesFrom(
             removeFromIndex(idx, INDEX_DESCRIPTORS[i],
                             getIndexKeyFromItem(INDEX_DESCRIPTORS[i], item), itemKey),
             itemKey, item, i + 1)

removeFromIndexes(idx, itemKey, item) == removeFromIndexesFrom(idx, itemKey, item, 1)

\* The stored item under an encoded key, or Null.
cloneItemByItemKey(table, itemKey) ==
    IF itemKey \in DOMAIN table.itemStore THEN cloneItem(table.itemStore[itemKey]) ELSE Null

cloneItemByKey(table, pk, sk) == cloneItemByItemKey(table, encodeItemKey(pk, sk))

\* put, once the encoded key and the copy to store are known: the previous
\* item leaves the indexes, the copy is stored and indexed.
putStored(table, itemKey, stored) ==
    [itemStore |-> Upd(table.itemStore, itemKey, stored),
     indexes |-> addToIndexes(IF itemKey \in DOMAIN table.itemStore
                              THEN removeFromIndexes(table.indexes, itemKey,
                                                     table.itemStore[itemKey])
                              ELSE table.indexes,
                              itemKey, stored)]

\* put with the parts of the key encoded in the wrong order.
TablePutSwapped(table, item) ==
    putStored(table, encodeItemKey(item["SK"].s, item["PK"].s), cloneItem(item))

\* InMemoryTableState.put; the caller has checked that PK and SK are strings.
TablePut(table, item) ==
    putStored(table, encodeItemKey(item["PK"].s, item["SK"].s), cloneItem(item))

deleteStored(table, itemKey) ==
    IF itemKey \notin DOMAIN table.itemStore THEN table
    ELSE [itemStore |-> Del(table.itemStore, itemKey),
          indexes |-> removeFromIndexes(table.indexes, itemKey, table.itemStore[itemKey])]

\* deleteByKey with the key encoded the wrong way round.
deleteByKeySwapped(table, pk, sk) == deleteStored(table, encodeItemKey(sk, pk))

\* InMemoryTableState.deleteByKey
deleteByKey(table, pk, sk) == deleteStored(table, encodeItemKey(pk, sk))

-----------------------------------------------------------------------------
(* Expression engine.  A condition or filter expression is the sequence of  *)
(* its tokens: function names, parentheses, commas, the keywords AND, OR    *)
(* and BETWEEN, comparison operators, attribute paths and values (a value   *)
(* token stands for a placeholder with its ExpressionAttributeValues entry, *)
(* or for a literal).  size(path) operands and nested paths are left out.   *)
(* An update expression is given by its SET assignments and its REMOVE      *)
(* attributes.                                                              *)

MISSING == [t |-> "MISSING", s |-> <<>>, n |-> 0]

\* The value null.
NULL == [t |-> "NULL", s |-> <<>>, n |-> 0]

\* What a resolve function yields when it throws NotSupportedError.
THROWS == [t |-> "THROWS", s |-> <<>>, n |-> 0]

Token(k, a, v) == [k |-> k, a |-> a, v |-> v]
Keyword(k) == Token(k, "", U)
FnName(name) == Token("fn", name, U)
Operator(op) == Token("op", op, U)
PathToken(attr) == Token("path", attr, U)
ValueToken(v) == Token("value", "", v)

\* Expression texts.
Call1(name, attr) == <<FnName(name), Keyword("("), PathToken(attr), Keyword(")")>>
Call2(name, attr, operand) ==
    <<FnName(name), Keyword("("), PathToken(attr), Keyword(","), operand, Keyword(")")>>
Comparison(left, op, right) == <<left, Operator(op), right>>
BetweenClause(attr, lower, upper) ==
    <<PathToken(attr), Keyword("between"), lower, Keyword("and"), upper>>
AndOf(left, right) == left \o <<Keyword("and")>> \o right
OrOf(left, right) == left \o <<Keyword("or")>> \o right

NoCondition == [present |-> FALSE, expression |-> <<>>]
Condition(expression) == [present |-> TRUE, expression |-> expression]

\* splitTopLevelByKeyword: cuts the expression at every keyword outside
\* parentheses; the piece before a keyword is pushed as it is, the last
\* piece only when it is not empty.
RECURSIVE splitFrom(_, _, _, _, _)
splitFrom(expression, keyword, clauses, current, depth) ==
    IF Len(expression) = 0
    THEN IF Len(current) > 0 THEN Append(clauses, current) ELSE clauses
    ELSE LET char == Head(expression)
             next == IF char.k = "(" THEN depth + 1
                     ELSE IF char.k = ")" THEN (IF depth > 0 THEN depth - 1 ELSE 0)
                     ELSE depth
         IN IF next = 0 /\ char.k = keyword
            THEN splitFrom(Tail(expression), keyword, Append(clauses, current), <<>>, next)
            ELSE splitFrom(Tail(expression), keyword, clauses, Append(current, char), next)

splitTopLevelByKeyword(expression, keyword) ==
    splitFrom(expression, keyword, <<>>, <<>>, 0)

\* resolveAttributeValue for a top-level attribute.
resolveAttributeValue(attr, item) ==
    IF item = Null THEN MISSING
    ELSE IF attr \notin DOMAIN item THEN MISSING
    ELSE item[attr]

\* resolveAttributeValue of a piece of expression text: parseDocumentPath
\* throws unless the text is a path.
resolveAttributeValueOf(token, item) ==
    IF Len(token) = 1 /\ token[1].k = "path"
    THEN resolveAttributeValue(token[1].a, item)
    ELSE THROWS

\* resolveValueToken of a piece of expression text: a value, or a path.
resolveValueToken(token, item) ==
    IF Len(token) = 1 /\ token[1].k = "value" THEN token[1].v
    ELSE IF Len(token) = 1 /\ token[1].k = "path"
    THEN resolveAttributeValue(token[1].a, item)
    ELSE THROWS

\* String(value) for a string, a natural number or null.
StringOf(value) ==
    IF value.t = "N" THEN Digits(value.n)
    ELSE IF value.t = "NULL" THEN <<110, 117, 108, 108>>
    ELSE value.s

\* compareValues: numeric when both are numbers, else by the string forms.
compareValues(left, right) ==
    IF left.t = "N" /\ right.t = "N" THEN left.n - right.n
    ELSE IF StrLt(StringOf(left), StringOf(right)) THEN -1
    ELSE IF StrLt(StringOf(right), StringOf(left)) THEN 1
    ELSE 0

\* String.prototype.startsWith
startsWith(str, prefix) ==
    /\ Len(prefix) <= Len(str)
    /\ SubSeq(str, 1, Len(prefix)) = prefix

\* String.prototype.includes
includes(str, part) ==
    \E i \in 0..Len(str) :
        i + Len(part) <= Len(str) /\ SubSeq(str, i + 1, i + Len(part)) = part

\* containsValue: for a string the substring test, for a map (what a stored
\* binary value has become: type and data) the own-property test.
containsValue(container, expected) ==
    IF container.t = "S" THEN includes(container.s, StringOf(expected))
    ELSE IF container.t = "M"
    THEN StringOf(expected) \in {<<116, 121, 112, 101>>, <<100, 97, 116, 97>>}
    ELSE FALSE

toUpperCase(str) ==
    [i \in 1..Len(str) |-> IF str[i] \in 97..122 THEN str[i] - 32 ELSE str[i]]

\* attributeMatchesType for S, N, NULL, M and B.
attributeMatchesType(value, expectedType) ==
    LET matches(t) ==
            \/ t = <<83>> /\ value.t = "S"
            \/ t = <<78>> /\ value.t = "N"
            \/ t = <<78, 85, 76, 76>> /\ value.t = "NULL"
            \/ t = <<77>> /\ value.t = "M"
            \/ t = <<66>> /\ value.t = "B"
    IN matches(toUpperCase(expectedType))

\* The first position from `from` on that holds the keyword, 0 if none.
RECURSIVE IndexOf(_, _, _)
IndexOf(clause, k, from) ==
    IF from > Len(clause) THEN 0
    ELSE IF clause[from].k = k THEN from
    ELSE IndexOf(clause, k, from + 1)

Truth(b) == IF b THEN "true" ELSE "false"

\* name(...) with the name given, case ignored by the token.
IsCall(clause, name) ==
    /\ Len(clause) >= 4
    /\ clause[1] = FnName(name)
    /\ clause[2].k = "("
    /\ clause[Len(clause)].k = ")"

\* name(first, second): the first comma ends the first argument.
IsCall2(clause, name) ==
    /\ IsCall(clause, name)
    /\ IndexOf(clause, ",", 4) \in 4..(Len(clause) - 2)

FirstArgument(clause) == SubSeq(clause, 3, IndexOf(clause, ",", 4) - 1)
SecondArgument(clause) == SubSeq(clause, IndexOf(clause, ",", 4) + 1, Len(clause) - 1)

\* The clauses of two operands: what they yield once both are resolved, the
\* attribute first.
beginsWithClause(current, expected) ==
    IF current = THROWS \/ expected = THROWS THEN "throw"
    ELSE IF current = MISSING \/ expected = MISSING THEN "false"
    ELSE Truth(startsWith(StringOf(current), StringOf(expected)))

containsClause(current, expected) ==
    IF current = THROWS \/ expected = THROWS THEN "throw"
    ELSE IF current = MISSING \/ expected = MISSING THEN "false"
    ELSE Truth(containsValue(current, expected))

attributeTypeClause(current, expectedType) ==
    IF current = THROWS \/ expectedType = THROWS THEN "throw"
    ELSE IF current = MISSING THEN "false"
    ELSE IF expectedType.t # "S" THEN "throw"
    ELSE Truth(attributeMatchesType(current, expectedType.s))

betweenClause(current, lower, upper) ==
    IF current = THROWS \/ lower = THROWS \/ upper = THROWS THEN "throw"
    ELSE IF current = MISSING \/ lower = MISSING \/ upper = MISSING THEN "false"
    ELSE Truth(compareValues(current, lower) >= 0 /\ compareValues(current, upper) <= 0)

compareClause(left, operator, right) ==
    IF left = THROWS \/ right = THROWS THEN "throw"
    ELSE IF left = MISSING \/ right = MISSING THEN "false"
    ELSE IF operator = "=" THEN Truth(compareValues(left, right) = 0)
    ELSE IF operator = "<>" THEN Truth(compareValues(left, right) # 0)
    ELSE IF operator = "<" THEN Truth(compareValues(left, right) < 0)
    ELSE IF operator = "<=" THEN Truth(compareValues(left, right) <= 0)
    ELSE IF operator = ">" THEN Truth(compareValues(left, right) > 0)
    ELSE IF operator = ">=" THEN Truth(compareValues(left, right) >= 0)
    ELSE "false"

\* `attr BETWEEN lower AND upper`: the clause holds BETWEEN, then an AND
\* with text before, between and after them.
IsBetween(clause) ==
    /\ IndexOf(clause, "between", 2) > 0
    /\ IndexOf(clause, "and", IndexOf(clause, "between", 2) + 2) \in 1..(Len(clause) - 1)

\* `left op right`: an operator with text on both sides.
IsCompare(clause) == IndexOf(clause, "op", 2) \in 1..(Len(clause) - 1)

evaluateBetween(clause, item, p, q) ==
    betweenClause(resolveAttributeValueOf(SubSeq(clause, 1, p - 1), item),
                  resolveValueToken(SubSeq(clause, p + 1, q - 1), item),
                  resolveValueToken(SubSeq(clause, q + 1, Len(clause)), item))

evaluateCompare(clause, item, p) ==
    compareClause(resolveValueToken(SubSeq(clause, 1, p - 1), item), clause[p].a,
                  resolveValueToken(SubSeq(clause, p + 1, Len(clause)), item))

\* attribute_exists / attribute_not_exists once the path is resolved.
existsClause(current, wanted) ==
    IF current = THROWS THEN "throw" ELSE Truth((current # MISSING) = wanted)

\* "true", "false", or "throw" (NotSupportedError: Unsupported clause, or
\* what resolving an operand throws).
evaluateSingleClause(clause, item) ==
    IF IsCall(clause, "attribute_exists")
    THEN existsClause(resolveAttributeValueOf(SubSeq(clause, 3, Len(clause) - 1), item), TRUE)
    ELSE IF IsCall(clause, "attribute_not_exists")
    THEN existsClause(resolveAttributeValueOf(SubSeq(clause, 3, Len(clause) - 1), item), FALSE)
    ELSE IF IsCall2(clause, "begins_with")
    THEN beginsWithClause(resolveAttributeValueOf(FirstArgument(clause), item),
                          resolveValueToken(SecondArgument(clause), item))
    ELSE IF IsCall2(clause, "contains")
    THEN containsClause(resolveAttributeValueOf(FirstArgument(clause), item),
                        resolveValueToken(SecondArgument(clause), item))
    ELSE IF IsCall2(clause, "attribute_type")
    THEN attributeTypeClause(resolveAttributeValueOf(FirstArgument(clause), item),
                             resolveValueToken(SecondArgument(clause), item))
    ELSE IF IsBetween(clause)
    THEN evaluateBetween(clause, item, IndexOf(clause, "between", 2),
                         IndexOf(clause, "and", IndexOf(clause, "between", 2) + 2))
    ELSE IF IsCompare(clause)
    THEN evaluateCompare(clause, item, IndexOf(clause, "op", 2))
    ELSE "throw"

\* andClauses.every(...): stops at the first false clause, a throw propagates.
RECURSIVE EveryClause(_, _)
EveryClause(clauses, item) ==
    IF Len(clauses) = 0 THEN "true"
    ELSE LET rest(r) == IF r = "true" THEN EveryClause(Tail(clauses), item) ELSE r
         IN rest(evaluateSingleClause(Head(clauses), item))

\* orGroups.some(...): stops at the first true group, a throw propagates.
RECURSIVE SomeGroup(_, _)
SomeGroup(groups, item) ==
    IF Len(groups) = 0 THEN "false"
    ELSE LET rest(r) == IF r = "false" THEN SomeGroup(Tail(groups), item) ELSE r
         IN rest(EveryClause(splitTopLevelByKeyword(Head(groups), "and"), item))

evaluateGroups(groups, item) ==
    IF Len(groups) = 0 THEN "throw" ELSE SomeGroup(groups, item)

evaluateConditionExpression(expression, item) ==
    evaluateGroups(splitTopLevelByKeyword(expression, "or"), item)

\* What resolveUpdateSetValueToken yields when arithmetic operands are not
\* numbers (it throws).
NOT_NUMBERS == [t |-> "NOT_NUMBERS", s |-> <<>>, n |-> 0]

\* left + right of a SET right-hand side.
plus(left, right) ==
    IF left.t # "N" \/ right.t # "N" THEN NOT_NUMBERS ELSE [t |-> "N", s |-> <<>>, n |-> left.n + right.n]

\* if_not_exists that takes the fallback whatever the item holds.
ifNotExistsFallback(existing, fallback) == fallback

\* if_not_exists(path, fallback), both resolved.
ifNotExists(existing, fallback) == IF existing # MISSING THEN existing ELSE fallback

\* The right-hand side of a SET assignment: left + right, if_not_exists(attr,
\* fallback), a value, or the attribute of the item handed in the context
\* (MISSING when the item has none).
RECURSIVE resolveUpdateSetValueToken(_, _)
resolveUpdateSetValueToken(rhs, item) ==
    IF rhs.kind = "plus"
    THEN plus(resolveUpdateSetValueToken(rhs.left, item),
              resolveUpdateSetValueToken(rhs.right, item))
    ELSE IF rhs.kind = "if_not_exists"
    THEN ifNotExists(resolveAttributeValue(rhs.attr, item),
                     IF resolveAttributeValue(rhs.attr, item) # MISSING THEN MISSING
                     ELSE resolveUpdateSetValueToken(rhs.fallback, item))
    ELSE IF rhs.kind = "value" THEN rhs.val
    ELSE resolveAttributeValue(rhs.attr, item)

\* The SET clause is cut from after SET to where REMOVE starts: with REMOVE
\* written before SET the slice is empty, and an expression that has a SET
\* keyword with an empty clause throws.
removeBeforeSet(expr) ==
    /\ "order" \in DOMAIN expr
    /\ expr.order = "REMOVE SET"
    /\ Len(expr.set) > 0
    /\ Len(expr.remove) > 0

\* The result of parseUpdateExpression for the resolved right-hand sides:
\* [ok, set, remove], set being [attr, value] pairs, with the index when the
\* path is attr[index].  A right-hand side naming an absent attribute throws,
\* and so does arithmetic on operands that are not numbers.
parsedUpdateExpression(expr, values) ==
    IF removeBeforeSet(expr) \/ \E i \in 1..Len(values) : values[i] \in {MISSING, NOT_NUMBERS}
    THEN [ok |-> FALSE, set |-> <<>>, remove |-> <<>>]
    ELSE [ok |-> TRUE,
          set |-> [i \in 1..Len(values) |->
                     IF "index" \in DOMAIN expr.set[i]
                     THEN [attr |-> expr.set[i].attr, index |-> expr.set[i].index,
                           value |-> values[i]]
                     ELSE [attr |-> expr.set[i].attr, value |-> values[i]]],
          remove |-> expr.remove]

\* Right-hand sides resolved one after the other, each against the item with
\* the assignments before it applied.
RECURSIVE resolveInOrder(_, _)
resolveInOrder(set, item) ==
    IF Len(set) = 0 THEN <<>>
    ELSE LET rest(value) ==
                 <<value>> \o
                 resolveInOrder(Tail(set),
                                IF value \in {MISSING, NOT_NUMBERS} \/ "index" \in DOMAIN Head(set)
                                THEN item ELSE Upd(item, Head(set).attr, value))
         IN rest(resolveUpdateSetValueToken(Head(set).rhs, item))

\* parseUpdateExpression resolving each right-hand side against the item as
\* the assignments before it leave it.
parseUpdateExpressionInOrder(expr, base) ==
    parsedUpdateExpression(expr, resolveInOrder(expr.set, base))

\* parseUpdateExpression: every SET right-hand side is resolved against the
\* item handed in the context.
parseUpdateExpression(expr, base) ==
    parsedUpdateExpression(
        expr, [i \in 1..Len(expr.set) |-> resolveUpdateSetValueToken(expr.set[i].rhs, base)])

-----------------------------------------------------------------------------
(* InMemoryDocumentClientImpl.  An operation takes the table and its params *)
(* and returns the table it leaves with the error it throws ("None" when it *)
(* resolves).                                                               *)

TABLE_NAME == <<116>>   \* the one table of the model, "t"

Ok(table) == [table |-> table, err |-> "None", msg |-> ""]
Fail(table, err, msg) == [table |-> table, err |-> err, msg |-> msg]

\* assertPrimaryKey / getRequiredKey: PK and SK must be strings.
assertPrimaryKey(item) == IsString(item, "PK") /\ IsString(item, "SK")

\* assertCondition letting a false condition pass.
assertConditionLenient(cond, item) ==
    IF ~cond.present THEN "None"
    ELSE IF evaluateConditionExpression(cond.expression, item) = "throw"
    THEN "ValidationException"
    ELSE "None"

\* assertCondition: the error thrown, or "None".  A NotSupportedError of the
\* expression engine is rethrown as a ValidationException.
assertCondition(cond, item) ==
    IF ~cond.present THEN "None"
    ELSE LET thrown(ok) == IF ok = "throw" THEN "ValidationException"
                           ELSE IF ok = "false" THEN "ConditionalCheckFailedException"
                           ELSE "None"
         IN thrown(evaluateConditionExpression(cond.expression, item))

CondMsg(err) == IF err = "ValidationException" THEN "Expression" ELSE "ConditionalCheckFailed"

getTopLevelKeyAttribute(attr) == IF attr \in {"PK", "SK"} THEN attr ELSE "null"

\* parent[leaf.value] = value on a list: the element is replaced, or added
\* when the index is the length.
withElement(list, index, value) ==
    [list EXCEPT !.s = IF index = Len(@) THEN Append(@, value.n)
                       ELSE [@ EXCEPT ![index + 1] = value.n]]

\* setValueAtDocumentPath that takes an index beyond the length of the list
\* for nothing to do.
setValueAtDocumentPathBeyond(item, assignment) ==
    IF "index" \notin DOMAIN assignment
    THEN [ok |-> TRUE, item |-> Upd(item, assignment.attr, assignment.value)]
    ELSE IF assignment.attr \notin DOMAIN item \/ item[assignment.attr].t # "L"
    THEN [ok |-> FALSE, item |-> item, msg |-> "InvalidPath"]
    ELSE IF assignment.index > Len(item[assignment.attr].s)
    THEN [ok |-> TRUE, item |-> item]
    ELSE [ok |-> TRUE,
          item |-> Upd(item, assignment.attr,
                       withElement(item[assignment.attr], assignment.index,
                                   assignment.value))]

\* setValueAtDocumentPath with resolveDocumentPathParent, for the paths attr
\* and attr[index].  Returns [ok, item]; ok is FALSE, with msg "InvalidPath",
\* for the invalid-document-path validation error.
setValueAtDocumentPath(item, assignment) ==
    IF "index" \notin DOMAIN assignment
    THEN [ok |-> TRUE, item |-> Upd(item, assignment.attr, assignment.value)]
    ELSE IF assignment.attr \notin DOMAIN item
    THEN [ok |-> FALSE, item |-> item, msg |-> "InvalidPath"]
    ELSE IF item[assignment.attr].t # "L" \/ assignment.index > Len(item[assignment.attr].s)
    THEN [ok |-> FALSE, item |-> item, msg |-> "InvalidPath"]
    ELSE [ok |-> TRUE,
          item |-> Upd(item, assignment.attr,
                       withElement(item[assignment.attr], assignment.index,
                                   assignment.value))]

\* SET assignments applied without looking at key attributes.
RECURSIVE applySetUnchecked(_, _)
applySetUnchecked(item, set) ==
    IF Len(set) = 0 THEN [ok |-> TRUE, item |-> item]
    ELSE applySetUnchecked(Upd(item, Head(set).attr, Head(set).value), Tail(set))

\* applyParsedUpdateExpression on a copy of the base item: SET assignments in
\* order, then REMOVE.  Returns [ok, item]; ok is FALSE for the key-attribute
\* validation error.
RECURSIVE applySet(_, _)
applySet(item, set) ==
    IF Len(set) = 0 THEN [ok |-> TRUE, item |-> item]
    ELSE IF /\ getTopLevelKeyAttribute(Head(set).attr) # "null"
            /\ \/ "index" \in DOMAIN Head(set)
               \/ Head(set).value # item[Head(set).attr]
    THEN [ok |-> FALSE, item |-> item, msg |-> "KeyAttribute"]
    ELSE LET rest(done) == IF ~done.ok THEN done ELSE applySet(done.item, Tail(set))
         IN rest(setValueAtDocumentPath(item, Head(set)))

RECURSIVE applyRemove(_, _)
applyRemove(item, remove) ==
    IF Len(remove) = 0 THEN [ok |-> TRUE, item |-> item]
    ELSE IF getTopLevelKeyAttribute(Head(remove)) # "null"
    THEN [ok |-> FALSE, item |-> item]
    ELSE applyRemove(Del(item, Head(remove)), Tail(remove))

applyParsedUpdateExpression(item, parsed) ==
    LET removes(afterSet) ==
            IF ~afterSet.ok THEN afterSet ELSE applyRemove(afterSet.item, parsed.remove)
    IN removes(applySet(item, parsed.set))

\* The part put, update and delete share with the entries of transactWrite:
\* what the entry does to the table once its key is known to be valid.
\* Returns [table, err, msg].
applyPut(table, item, cond) ==
    LET checked(c) == IF c # "None" THEN Fail(table, c, CondMsg(c))
                      ELSE Ok(TablePut(table, item))
    IN checked(assertCondition(cond, cloneItemByKey(table, item["PK"].s, item["SK"].s)))

\* update from the base item on: parse against the base, apply to a copy of
\* it, check the key, store.  next is the item handed to table.put.
applyUpdateTo(table, base, expr) ==
    LET stored(next) ==
            IF ~next.ok
            THEN Fail(table, "ValidationException",
                      IF "msg" \in DOMAIN next THEN next.msg ELSE "KeyAttribute")
            ELSE IF ~assertPrimaryKey(next.item)
            THEN Fail(table, "ValidationException", "KeyType")
            ELSE [table |-> TablePut(table, next.item), err |-> "None", msg |-> "",
                  next |-> next.item]
        applied(parsed) ==
            IF ~parsed.ok THEN Fail(table, "ValidationException", "Expression")
            ELSE stored(applyParsedUpdateExpression(cloneItem(base), parsed))
    IN applied(parseUpdateExpression(expr, base))

applyUpdate(table, key, expr, cond) ==
    LET checked(existing, c) ==
            IF c # "None" THEN Fail(table, c, CondMsg(c))
            ELSE applyUpdateTo(table,
                               IF existing = Null
                               THEN [PK |-> key["PK"], SK |-> key["SK"]] ELSE existing,
                               expr)
        found(existing) == checked(existing, assertCondition(cond, existing))
    IN found(cloneItemByKey(table, key["PK"].s, key["SK"].s))

\* A delete that checks its condition and leaves the item in place.
applyDeleteKept(table, key, cond) ==
    LET checked(c) == IF c # "None" THEN Fail(table, c, CondMsg(c)) ELSE Ok(table)
    IN checked(assertCondition(cond, cloneItemByKey(table, key["PK"].s, key["SK"].s)))

applyDelete(table, key, cond) ==
    LET checked(c) == IF c # "None" THEN Fail(table, c, CondMsg(c))
                      ELSE Ok(deleteByKey(table, key["PK"].s, key["SK"].s))
    IN checked(assertCondition(cond, cloneItemByKey(table, key["PK"].s, key["SK"].s)))

\* A ConditionCheck entry of a transaction.
applyCheck(table, key, cond) ==
    LET checked(c) == IF c # "None" THEN Fail(table, c, CondMsg(c)) ELSE Ok(table)
    IN checked(assertCondition(cond, cloneItemByKey(table, key["PK"].s, key["SK"].s)))

\* A read that threw; out is what a read resolves with.
ReadFail(table, err, msg) == [table |-> table, err |-> err, msg |-> msg, out |-> Null]

\* get resolving with no Item whatever the table holds.
getNothing(table, params) ==
    IF params.unsupported THEN ReadFail(table, "NotSupportedError", "Parameter")
    ELSE IF ~assertPrimaryKey(params.Key) THEN ReadFail(table, "ValidationException", "KeyType")
    ELSE [table |-> table, err |-> "None", msg |-> "", out |-> Null]

\* get: out is the Item, Null when the key holds none.
get(table, params) ==
    IF params.unsupported THEN ReadFail(table, "NotSupportedError", "Parameter")
    ELSE IF ~assertPrimaryKey(params.Key) THEN ReadFail(table, "ValidationException", "KeyType")
    ELSE [table |-> table, err |-> "None", msg |-> "",
          out |-> cloneItemByKey(table, params.Key["PK"].s, params.Key["SK"].s)]

put(table, params) ==
    IF params.unsupported THEN Fail(table, "NotSupportedError", "Parameter")
    ELSE IF ~assertPrimaryKey(params.Item) THEN Fail(table, "ValidationException", "KeyType")
    ELSE applyPut(table, params.Item, params.ConditionExpression)

\* params.ReturnValues ?? "NONE"
returnValuesOf(params) ==
    IF "ReturnValues" \in DOMAIN params THEN params.ReturnValues ELSE "NONE"

\* What update resolves with: Attributes for ALL_NEW, else nothing.
updateOutput(outcome, returnValues) ==
    IF outcome.err # "None" THEN [table |-> outcome.table, err |-> outcome.err,
                                  msg |-> outcome.msg, out |-> Null]
    ELSE [table |-> outcome.table, err |-> "None", msg |-> "",
          out |-> IF returnValues = "ALL_NEW" THEN cloneItem(outcome.next) ELSE Null]

\* update: out is Attributes, Null when there are none.
update(table, params) ==
    IF params.unsupported THEN ReadFail(table, "NotSupportedError", "Parameter")
    ELSE IF ~assertPrimaryKey(params.Key)
    THEN ReadFail(table, "ValidationException", "KeyType")
    ELSE IF returnValuesOf(params) \notin {"NONE", "ALL_NEW"}
    THEN ReadFail(table, "ValidationException", "ReturnValues")
    ELSE updateOutput(applyUpdate(table, params.Key, params.UpdateExpression,
                                  params.ConditionExpression),
                      returnValuesOf(params))

delete(table, params) ==
    IF params.unsupported THEN Fail(table, "NotSupportedError", "Parameter")
    ELSE IF ~assertPrimaryKey(params.Key) THEN Fail(table, "ValidationException", "KeyType")
    ELSE applyDelete(table, params.Key, params.ConditionExpression)

\* The most entries a batchWrite request may hold.
BATCH_WRITE_MAX == 25

\* batchWrite applies its entries one after the other; an entry that throws
\* ends the loop with the earlier entries applied.
RECURSIVE batchWriteLoop(_, _)
batchWriteLoop(table, requests) ==
    IF Len(requests) = 0 THEN Ok(table)
    ELSE IF Head(requests).kind = "PutRequest"
    THEN IF ~assertPrimaryKey(Head(requests).Item)
         THEN Fail(table, "ValidationException", "KeyType")
         ELSE batchWriteLoop(TablePut(table, Head(requests).Item), Tail(requests))
    ELSE IF Head(requests).kind = "DeleteRequest"
    THEN IF ~assertPrimaryKey(Head(requests).Key)
         THEN Fail(table, "ValidationException", "KeyType")
         ELSE batchWriteLoop(deleteByKey(table, Head(requests).Key["PK"].s,
                                         Head(requests).Key["SK"].s),
                             Tail(requests))
    ELSE Fail(table, "ValidationException", "RequestShape")

batchWrite(table, params) ==
    IF params.unsupported THEN Fail(table, "NotSupportedError", "Parameter")
    ELSE IF Len(params.RequestItems) > BATCH_WRITE_MAX
    THEN Fail(table, "ValidationException", "TooMany")
    ELSE batchWriteLoop(table, params.RequestItems)

\* The most entries a transactWrite request may hold.
TRANSACT_WRITE_MAX == 100

\* The marker under which transactWrite remembers a touched key:
\* `${tableName}::${key.PK}::${key.SK}`.
marker(tableName, pk, sk) ==
    tableName \o <<CH_COLON, CH_COLON>> \o pk \o <<CH_COLON, CH_COLON>> \o sk

JournalHas(journal, m) == \E i \in 1..Len(journal) : journal[i].marker = m

\* remember: the first pre-image of a key, in the order of first touch.
remember(journal, tableName, key, before) ==
    IF JournalHas(journal, marker(tableName, key["PK"].s, key["SK"].s)) THEN journal
    ELSE Append(journal, [marker |-> marker(tableName, key["PK"].s, key["SK"].s),
                          PK |-> key["PK"].s, SK |-> key["SK"].s,
                          before |-> IF before = Null THEN Null ELSE cloneItem(before)])

\* A rollback that restores the items that existed and forgets to delete
\* the ones that did not.
RECURSIVE transactRollbackRestoreOnly(_, _)
transactRollbackRestoreOnly(table, journal) ==
    IF Len(journal) = 0 THEN table
    ELSE transactRollbackRestoreOnly(
             IF journal[Len(journal)].before = Null THEN table
             ELSE TablePut(table, journal[Len(journal)].before),
             SubSeq(journal, 1, Len(journal) - 1))

\* rollback of transactWrite: the journal undone from its last entry to its first.
RECURSIVE transactRollback(_, _)
transactRollback(table, journal) ==
    IF Len(journal) = 0 THEN table
    ELSE transactRollback(
             IF journal[Len(journal)].before = Null
             THEN deleteByKey(table, journal[Len(journal)].PK, journal[Len(journal)].SK)
             ELSE TablePut(table, journal[Len(journal)].before),
             SubSeq(journal, 1, Len(journal) - 1))

EntryKey(entry) == IF entry.kind = "Put" THEN entry.Item ELSE entry.Key

\* What an entry with a valid, untouched key does to the table.
entryOutcome(table, entry) ==
    IF entry.kind = "Put"
    THEN applyPut(table, entry.Item, entry.ConditionExpression)
    ELSE IF entry.kind = "Update"
    THEN applyUpdate(table, entry.Key, entry.UpdateExpression, entry.ConditionExpression)
    ELSE IF entry.kind = "Delete"
    THEN applyDelete(table, entry.Key, entry.ConditionExpression)
    ELSE applyCheck(table, entry.Key, entry.ConditionExpression)

\* One entry of the transaction: [table, touched, journal, err, msg].  The
\* pre-image is remembered once the entry's checks have passed, before its
\* write.
transactEntry(table, touched, journal, entry) ==
    LET stop(err, msg) == [table |-> table, touched |-> touched, journal |-> journal,
                           err |-> err, msg |-> msg]
        done(applied, m) ==
            IF applied.err # "None"
            THEN [table |-> table, touched |-> touched \cup {m}, journal |-> journal,
                  err |-> applied.err, msg |-> applied.msg]
            ELSE [table |-> applied.table, touched |-> touched \cup {m},
                  journal |-> IF entry.kind = "ConditionCheck" THEN journal
                              ELSE remember(journal, TABLE_NAME, EntryKey(entry),
                                            cloneItemByKey(table, EntryKey(entry)["PK"].s,
                                                           EntryKey(entry)["SK"].s)),
                  err |-> "None", msg |-> ""]
        untouched(m) ==
            IF m \in touched THEN stop("ValidationException", "MultipleOperations")
            ELSE done(entryOutcome(table, entry), m)
    IN IF entry.kind \notin {"Put", "Update", "Delete", "ConditionCheck"}
       THEN stop("NotSupportedError", "EntryShape")
       ELSE IF ~assertPrimaryKey(EntryKey(entry))
       THEN stop("ValidationException", "KeyType")
       ELSE untouched(marker(TABLE_NAME, EntryKey(entry)["PK"].s, EntryKey(entry)["SK"].s))

RECURSIVE transactLoop(_, _, _, _)
transactLoop(table, touched, journal, items) ==
    IF Len(items) = 0
    THEN [table |-> table, journal |-> journal, err |-> "None", msg |-> ""]
    ELSE LET next(step) ==
                 IF step.err # "None"
                 THEN [table |-> table, journal |-> journal,
                       err |-> step.err, msg |-> step.msg]
                 ELSE transactLoop(step.table, step.touched, step.journal, Tail(items))
         IN next(transactEntry(table, touched, journal, Head(items)))

\* The error transactWrite throws for the error an entry threw.
transactError(err, msg) ==
    IF err = "NotSupportedError" THEN [err |-> err, msg |-> msg]
    ELSE IF err = "ValidationException" /\ msg = "KeyAttribute"
    THEN [err |-> "TransactionCanceledException", msg |-> "ValidationError"]
    ELSE IF err = "ValidationException" THEN [err |-> err, msg |-> msg]
    ELSE [err |-> "TransactionCanceledException", msg |-> "None, ConditionalCheckFailed"]

\* The catch block: roll back, then throw.
transactCatch(done) ==
    [table |-> transactRollback(done.table, done.journal),
     err |-> transactError(done.err, done.msg).err,
     msg |-> transactError(done.err, done.msg).msg,
     journal |-> done.journal]

\* transactWrite: [table, err, msg, journal]; journal is what the entries
\* before the failing one had remembered.
transactWrite(table, params) ==
    IF params.unsupported
    THEN [table |-> table, err |-> "NotSupportedError", msg |-> "Parameter", journal |-> <<>>]
    ELSE IF Len(params.TransactItems) = 0
    THEN [table |-> table, err |-> "NotSupportedError", msg |-> "Empty", journal |-> <<>>]
    ELSE IF Len(params.TransactItems) > TRANSACT_WRITE_MAX
    THEN [table |-> table, err |-> "ValidationException", msg |-> "TooMany", journal |-> <<>>]
    ELSE LET settled(done) ==
                 IF done.err = "None"
                 THEN [table |-> done.table, err |-> "None", msg |-> "",
                       journal |-> done.journal]
                 ELSE transactCatch(done)
         IN settled(transactLoop(table, {}, <<>>, params.TransactItems))

-----------------------------------------------------------------------------
(* createTrackedDocClient: the change tracker of sandbox.ts.  trackedKeys    *)
(* is the insertion-ordered Map as the sequence of its entries.              *)

\* `${pk}__${sk}`
compositeKey(pk, sk) ==
    StringOf(pk) \o <<CH_UNDERSCORE, CH_UNDERSCORE>> \o StringOf(sk)

TrackedHas(tracked, ck) == \E i \in 1..Len(tracked) : tracked[i].compositeKey = ck

\* Map.set: a new key is appended, an existing key keeps its place.
TrackedSet(tracked, entry) ==
    IF TrackedHas(tracked, entry.compositeKey)
    THEN [i \in 1..Len(tracked) |->
            IF tracked[i].compositeKey = entry.compositeKey THEN entry ELSE tracked[i]]
    ELSE Append(tracked, entry)

\* The second half of captureKey, after `await original.get(...)`: the get
\* rejects for a key that is not a pair of strings, else the entry is set.
RECURSIVE captureSet(_, _, _)
captureSet(table, tracked, keys) ==
    IF Len(keys) = 0 THEN [trackedKeys |-> tracked, err |-> "None"]
    ELSE IF ~assertPrimaryKey(Head(keys))
    THEN [trackedKeys |-> captureSet(table, tracked, Tail(keys)).trackedKeys,
          err |-> "ValidationException"]
    ELSE captureSet(table,
                    TrackedSet(tracked,
                        [compositeKey |-> compositeKey(Head(keys)["PK"], Head(keys)["SK"]),
                         pk |-> Head(keys)["PK"].s, sk |-> Head(keys)["SK"].s,
                         original |-> cloneItemByKey(table, Head(keys)["PK"].s,
                                                     Head(keys)["SK"].s)]),
                    Tail(keys))

\* captureKeysForOperation for the keys of one request: every captureKey call
\* tests trackedKeys.has before any of them sets its entry (Promise.all over
\* calls started together).
captureKeysForOperation(table, tracked, keys) ==
    captureSet(table, tracked,
               SelectSeq(keys,
                   LAMBDA key : ~TrackedHas(tracked, compositeKey(key["PK"], key["SK"]))))

\* captureKey without `if (trackedKeys.has(compositeKey)) return`.
captureGetsAgain(table, tracked, keys) ==
    [entries |-> [i \in 1..Len(keys) |->
                    [compositeKey |-> compositeKey(keys[i]["PK"], keys[i]["SK"]),
                     pk |-> keys[i]["PK"].s, sk |-> keys[i]["SK"].s,
                     original |-> cloneItemByKey(table, keys[i]["PK"].s, keys[i]["SK"].s)]],
     err |-> "None"]

\* The first half of captureKey for the keys of one request, up to `await
\* original.get(...).promise()`: a key the journal has is passed over; for
\* the others the get is called, and the in-memory client reads the item
\* in that very call.  Returns the entries that will be set once the
\* promises have resolved, and the error of a rejected get.
captureGets(table, tracked, keys) ==
    LET asked == SelectSeq(keys,
                     LAMBDA key : ~TrackedHas(tracked, compositeKey(key["PK"], key["SK"])))
        valid == SelectSeq(asked, LAMBDA key : assertPrimaryKey(key))
    IN [entries |-> [i \in 1..Len(valid) |->
                       [compositeKey |-> compositeKey(valid[i]["PK"], valid[i]["SK"]),
                        pk |-> valid[i]["PK"].s, sk |-> valid[i]["SK"].s,
                        original |-> cloneItemByKey(table, valid[i]["PK"].s,
                                                    valid[i]["SK"].s)]],
        err |-> IF Len(valid) < Len(asked) THEN "ValidationException" ELSE "None"]

\* The second half of captureKey, run when the get has resolved:
\* trackedKeys.set(compositeKey, {pk, sk, original}).
RECURSIVE captureSets(_, _)
captureSets(tracked, entries) ==
    IF Len(entries) = 0 THEN tracked
    ELSE captureSets(TrackedSet(tracked, Head(entries)), Tail(entries))

\* The keys captureKeysForOperation reads from a batchWrite / transactWrite
\* request.
RECURSIVE batchKeys(_)
batchKeys(requests) ==
    IF Len(requests) = 0 THEN <<>>
    ELSE (IF Head(requests).kind = "PutRequest" THEN <<Head(requests).Item>>
          ELSE IF Head(requests).kind = "DeleteRequest" THEN <<Head(requests).Key>>
          ELSE <<>>) \o batchKeys(Tail(requests))

RECURSIVE transactKeys(_)
transactKeys(items) ==
    IF Len(items) = 0 THEN <<>>
    ELSE (IF Head(items).kind = "Put" THEN <<Head(items).Item>>
          ELSE IF Head(items).kind \in {"Update", "Delete"} THEN <<Head(items).Key>>
          ELSE <<>>) \o transactKeys(Tail(items))

\* chunksOf(25)
CHUNK_SIZE == 25

RECURSIVE chunksOf(_, _)
chunksOf(n, list) ==
    IF Len(list) = 0 THEN <<>>
    ELSE IF Len(list) <= n THEN <<list>>
    ELSE <<SubSeq(list, 1, n)>> \o chunksOf(n, SubSeq(list, n + 1, Len(list)))

RECURSIVE rollbackChunks(_, _)
rollbackChunks(table, chunks) ==
    IF Len(chunks) = 0 THEN table
    ELSE rollbackChunks(
             batchWrite(table, [RequestItems |-> Head(chunks), unsupported |-> FALSE]).table,
             Tail(chunks))

\* The DeleteRequest / PutRequest entries rollback builds from the journal.
rollbackDeletes(toDelete) ==
    [i \in 1..Len(toDelete) |->
        [kind |-> "DeleteRequest",
         Key |-> [PK |-> S(toDelete[i].pk), SK |-> S(toDelete[i].sk)]]]

rollbackRestores(toRestore) ==
    [i \in 1..Len(toRestore) |-> [kind |-> "PutRequest", Item |-> toRestore[i].original]]

\* rollback: the table after the delete chunks and the restore chunks.
trackerRollback(table, tracked) ==
    rollbackChunks(
        rollbackChunks(table,
            chunksOf(CHUNK_SIZE,
                     rollbackDeletes(SelectSeq(tracked, LAMBDA e : e.original = Null)))),
        chunksOf(CHUNK_SIZE,
                 rollbackRestores(SelectSeq(tracked, LAMBDA e : e.original # Null))))

-----------------------------------------------------------------------------
(* Reading: DeterministicTreap.iterate with bounds, the query candidates of *)
(* InMemoryTableState, scanItems, and the query and scan operations.        *)

CH_MAX == 65535   \* "\uffff"

\* TreapBounds: each side is absent or a key with an inclusive flag.
NoBound == [present |-> FALSE, key |-> <<>>, inclusive |-> FALSE]
Bound(key, inclusive) == [present |-> TRUE, key |-> key, inclusive |-> inclusive]
NoBounds == [lower |-> NoBound, upper |-> NoBound]

isBelowLowerBound(key, lower) ==
    IF ~lower.present THEN FALSE
    ELSE IF lower.inclusive THEN StrLt(key, lower.key)
    ELSE StrLt(key, lower.key) \/ key = lower.key

\* isAboveUpperBound that takes every upper bound for an inclusive one.
isAboveUpperBoundInclusive(key, upper) == upper.present /\ StrLt(upper.key, key)

isAboveUpperBound(key, upper) ==
    IF ~upper.present THEN FALSE
    ELSE IF upper.inclusive THEN StrLt(upper.key, key)
    ELSE StrLt(upper.key, key) \/ key = upper.key

\* iterateAsc, the nodes the stack yields when the upper bound is left out:
\* pushLeft skips a node below the lower bound and goes on with its right
\* child.
RECURSIVE ascNodes(_, _)
ascNodes(node, lower) ==
    IF node = Nil THEN <<>>
    ELSE IF isBelowLowerBound(NKey(node), lower) THEN ascNodes(NRight(node), lower)
    ELSE ascNodes(NLeft(node), lower) \o <<<<NKey(node), NVal(node)>>>>
             \o ascNodes(NRight(node), lower)

\* iterateAsc returns at the first popped node above the upper bound.
RECURSIVE untilAbove(_, _)
untilAbove(entries, upper) ==
    IF Len(entries) = 0 THEN <<>>
    ELSE IF isAboveUpperBound(Head(entries)[1], upper) THEN <<>>
    ELSE <<Head(entries)>> \o untilAbove(Tail(entries), upper)

iterateAsc(root, bounds) == untilAbove(ascNodes(root, bounds.lower), bounds.upper)

\* iterateDesc: pushRight skips a node above the upper bound and goes on
\* with its left child.
RECURSIVE descNodes(_, _)
descNodes(node, upper) ==
    IF node = Nil THEN <<>>
    ELSE IF isAboveUpperBound(NKey(node), upper) THEN descNodes(NLeft(node), upper)
    ELSE descNodes(NRight(node), upper) \o <<<<NKey(node), NVal(node)>>>>
             \o descNodes(NLeft(node), upper)

\* iterateDesc returns at the first popped node below the lower bound.
RECURSIVE untilBelow(_, _)
untilBelow(entries, lower) ==
    IF Len(entries) = 0 THEN <<>>
    ELSE IF isBelowLowerBound(Head(entries)[1], lower) THEN <<>>
    ELSE <<Head(entries)>> \o untilBelow(Tail(entries), lower)

iterateDesc(root, bounds) == untilBelow(descNodes(root, bounds.upper), bounds.lower)

\* iterate that reads forward whatever the direction.
iterateAscOnly(root, direction, bounds) == iterateAsc(root, bounds)

\* DeterministicTreap.iterate
iterate(root, direction, bounds) ==
    IF direction = "asc" THEN iterateAsc(root, bounds) ELSE iterateDesc(root, bounds)

\* RangeCondition.  NoRange stands for an absent condition.
NoRange == [type |-> "none"]
Compare(type, value) == [type |-> type, value |-> value]
Between(lower, upper) == [type |-> "between", lower |-> lower, upper |-> upper]

\* matchesRangeCondition for a value that is present.
matchesRangeCondition(value, condition) ==
    IF condition.type = "begins_with" THEN startsWith(StringOf(value), StringOf(condition.value))
    ELSE IF condition.type = "between"
    THEN compareValues(value, condition.lower) >= 0 /\ compareValues(value, condition.upper) <= 0
    ELSE IF condition.type = "=" THEN compareValues(value, condition.value) = 0
    ELSE IF condition.type = "<" THEN compareValues(value, condition.value) < 0
    ELSE IF condition.type = "<=" THEN compareValues(value, condition.value) <= 0
    ELSE IF condition.type = ">" THEN compareValues(value, condition.value) > 0
    ELSE compareValues(value, condition.value) >= 0

\* toTreapBounds
toTreapBounds(rangeCondition) ==
    IF rangeCondition.type = "none" THEN NoBounds
    ELSE IF rangeCondition.type = "begins_with"
    THEN [lower |-> Bound(encodeIndexEntryKey(StringOf(rangeCondition.value), <<>>), TRUE),
          upper |-> Bound(encodeIndexEntryKey(StringOf(rangeCondition.value) \o <<CH_MAX>>,
                                              <<>>), TRUE)]
    ELSE IF rangeCondition.type = "between"
    THEN [lower |-> Bound(encodeIndexEntryKey(StringOf(rangeCondition.lower), <<>>), TRUE),
          upper |-> Bound(encodeIndexEntryKey(StringOf(rangeCondition.upper), <<CH_MAX>>),
                          TRUE)]
    ELSE IF rangeCondition.type = "="
    THEN [lower |-> Bound(encodeIndexEntryKey(StringOf(rangeCondition.value), <<>>), TRUE),
          upper |-> Bound(encodeIndexEntryKey(StringOf(rangeCondition.value), <<CH_MAX>>),
                          TRUE)]
    ELSE IF rangeCondition.type = ">"
    THEN [lower |-> Bound(encodeIndexEntryKey(StringOf(rangeCondition.value), <<CH_MAX>>),
                          FALSE),
          upper |-> NoBound]
    ELSE IF rangeCondition.type = ">="
    THEN [lower |-> Bound(encodeIndexEntryKey(StringOf(rangeCondition.value), <<>>), TRUE),
          upper |-> NoBound]
    ELSE IF rangeCondition.type = "<"
    THEN [lower |-> NoBound,
          upper |-> Bound(encodeIndexEntryKey(StringOf(rangeCondition.value), <<>>), FALSE)]
    ELSE [lower |-> NoBound,
          upper |-> Bound(encodeIndexEntryKey(StringOf(rangeCondition.value), <<CH_MAX>>),
                          TRUE)]

\* INDEX_BY_NAME[indexName]
getDescriptor(indexName) ==
    INDEX_DESCRIPTORS[CHOOSE i \in 1..Len(INDEX_DESCRIPTORS) :
                          INDEX_DESCRIPTORS[i].name = indexName]

\* QueryCursor: absent, or a range key with an item key.
NoCursor == [present |-> FALSE, rangeKey |-> <<>>, itemKey |-> <<>>]
Cursor(rangeKey, itemKey) == [present |-> TRUE, rangeKey |-> rangeKey, itemKey |-> itemKey]

\* The generator of iterateQueryCandidates: which entries it yields.
yieldsCandidate(table, entry, rangeAttribute, rangeCondition, direction, cursor) ==
    /\ cursor.present =>
          LET exclusiveStartEntryKey == encodeIndexEntryKey(cursor.rangeKey, cursor.itemKey)
          IN IF direction = "asc" THEN StrLt(exclusiveStartEntryKey, entry[1])
             ELSE StrLt(entry[1], exclusiveStartEntryKey)
    /\ entry[2] \in DOMAIN table.itemStore
    /\ rangeCondition.type # "none" =>
          /\ rangeAttribute \in DOMAIN table.itemStore[entry[2]]
          /\ matchesRangeCondition(table.itemStore[entry[2]][rangeAttribute], rangeCondition)

\* iterateQueryCandidates: the candidates in the order they are yielded.
iterateQueryCandidates(table, indexName, hashKey, rangeCondition, scanIndexForward, cursor) ==
    IF hashKey \notin DOMAIN table.indexes[indexName] THEN <<>>
    ELSE LET direction == IF scanIndexForward THEN "asc" ELSE "desc"
             candidate(entry) ==
                 [entryKey |-> entry[1], itemKey |-> entry[2],
                  item |-> cloneItem(table.itemStore[entry[2]])]
             kept(entries) ==
                 SelectSeq(entries,
                     LAMBDA entry : yieldsCandidate(table, entry,
                                        getDescriptor(indexName).rangeAttribute,
                                        rangeCondition, direction, cursor))
             yielded(entries) == [i \in 1..Len(entries) |-> candidate(entries[i])]
         IN yielded(kept(iterate(table.indexes[indexName][hashKey].root, direction,
                                 toTreapBounds(rangeCondition))))

\* The comparator of sortItemsByPKSK.
ItemLt(a, b) ==
    IF StringOf(a["PK"]) # StringOf(b["PK"]) THEN StrLt(StringOf(a["PK"]), StringOf(b["PK"]))
    ELSE StrLt(StringOf(a["SK"]), StringOf(b["SK"]))

\* sortItemsByPKSK over the values of the item store (no two of which
\* compare equal).
RECURSIVE sortItemsByPKSK(_)
sortItemsByPKSK(items) ==
    IF items = {} THEN <<>>
    ELSE LET rest(first) == <<first>> \o sortItemsByPKSK(items \ {first})
         IN rest(CHOOSE a \in items : \A b \in items \ {a} : ItemLt(a, b))

NoStartKey == [present |-> FALSE, key |-> <<>>]
StartKey(key) == [present |-> TRUE, key |-> key]

\* scanItems that keeps the item at the start key.
scanItemsFromStart(table, exclusiveStartKey) ==
    LET after(sorted) ==
            IF ~exclusiveStartKey.present THEN sorted
            ELSE SelectSeq(sorted,
                     LAMBDA item :
                         IF StrLt(exclusiveStartKey.key["PK"].s, StringOf(item["PK"])) THEN TRUE
                         ELSE IF StrLt(StringOf(item["PK"]), exclusiveStartKey.key["PK"].s)
                         THEN FALSE
                         ELSE ~StrLt(StringOf(item["SK"]), exclusiveStartKey.key["SK"].s))
    IN after(sortItemsByPKSK({cloneItem(table.itemStore[k]) : k \in DOMAIN table.itemStore}))

\* InMemoryTableState.scanItems
scanItems(table, exclusiveStartKey) ==
    LET after(sorted) ==
            IF ~exclusiveStartKey.present THEN sorted
            ELSE SelectSeq(sorted,
                     LAMBDA item :
                         IF StrLt(exclusiveStartKey.key["PK"].s, StringOf(item["PK"])) THEN TRUE
                         ELSE IF StrLt(StringOf(item["PK"]), exclusiveStartKey.key["PK"].s)
                         THEN FALSE
                         ELSE StrLt(exclusiveStartKey.key["SK"].s, StringOf(item["SK"])))
    IN after(sortItemsByPKSK({cloneItem(table.itemStore[k]) : k \in DOMAIN table.itemStore}))

\* Limit: absent, or a number: the whole number n, or n and a half.
NoLimit == [present |-> FALSE, n |-> 0, half |-> FALSE]
Limit(n) == [present |-> TRUE, n |-> n, half |-> FALSE]
LimitAndHalf(n) == [present |-> TRUE, n |-> n, half |-> TRUE]

\* normalizeLimit: TRUE when it throws (value < 1, compared in halves).
limitIsInvalid(limit) ==
    limit.present /\ 2 * limit.n + (IF limit.half THEN 1 ELSE 0) < 2

\* What normalizeLimit yields when it throws.
LimitThrows == [throw |-> TRUE]

\* normalizeLimit: undefined stays undefined, otherwise Math.floor(value).
normalizeLimit(limit) ==
    IF limitIsInvalid(limit) THEN LimitThrows ELSE [limit EXCEPT !.half = FALSE]

\* The limit test of the candidate loop, one candidate late.
limitReachedLate(limit, scannedCount) == limit.present /\ scannedCount > limit.n

\* limit !== undefined && scannedCount >= limit
limitReached(limit, scannedCount) == limit.present /\ scannedCount >= limit.n

\* The candidate loop of query and of scan: count the candidate, evaluate
\* the filter, keep the item, stop when the limit is reached.  last is the
\* item the loop stopped at, Null when it ran out of candidates.
RECURSIVE candidateLoop(_, _, _, _)
candidateLoop(candidates, filter, limit, acc) ==
    IF Len(candidates) = 0 THEN acc
    ELSE LET counted(include) ==
                 IF include = "throw"
                 THEN [acc EXCEPT !.err = "ValidationException"]
                 ELSE IF limitReached(limit, acc.scannedCount + 1)
                 THEN [err |-> "None",
                       items |-> IF include = "true"
                                 THEN Append(acc.items, Head(candidates)) ELSE acc.items,
                       scannedCount |-> acc.scannedCount + 1,
                       last |-> Head(candidates)]
                 ELSE candidateLoop(Tail(candidates), filter, limit,
                          [err |-> "None",
                           items |-> IF include = "true"
                                     THEN Append(acc.items, Head(candidates)) ELSE acc.items,
                           scannedCount |-> acc.scannedCount + 1,
                           last |-> Null])
         IN counted(IF filter.present
                    THEN evaluateConditionExpression(filter.expression, Head(candidates))
                    ELSE "true")

\* What query and scan return for a finished loop.
ReadOutput(table, done, lastEvaluatedKey) ==
    IF done.err # "None"
    THEN [table |-> table, err |-> done.err, msg |-> "Expression", out |-> Null]
    ELSE [table |-> table, err |-> "None", msg |-> "",
          out |-> [Items |-> done.items, Count |-> Len(done.items),
                   ScannedCount |-> done.scannedCount,
                   LastEvaluatedKey |-> lastEvaluatedKey]]

\* buildLastEvaluatedKey
buildLastEvaluatedKey(indexName, item) ==
    IF indexName = PRIMARY_INDEX_NAME THEN [PK |-> item["PK"], SK |-> item["SK"]]
    ELSE [a \in {"PK", "SK", getDescriptor(indexName).hashAttribute,
                 getDescriptor(indexName).rangeAttribute} |->
             IF a \in DOMAIN item THEN item[a] ELSE U]

\* resolveExclusiveStartKey with a cursor that leaves out the item key.
resolveExclusiveStartKeyRangeOnly(startKey, indexName) ==
    IF ~assertPrimaryKey(startKey) THEN [err |-> "KeyType", cursor |-> NoCursor]
    ELSE IF \/ ~IsString(startKey, getDescriptor(indexName).rangeAttribute)
            \/ ~IsString(startKey, getDescriptor(indexName).hashAttribute)
    THEN [err |-> "StartKey", cursor |-> NoCursor]
    ELSE [err |-> "None",
          cursor |-> Cursor(startKey[getDescriptor(indexName).rangeAttribute].s, <<>>)]

\* resolveExclusiveStartKey: "KeyType" / "StartKey" when it throws, else the
\* cursor.
resolveExclusiveStartKey(startKey, indexName) ==
    IF ~assertPrimaryKey(startKey) THEN [err |-> "KeyType", cursor |-> NoCursor]
    ELSE IF \/ ~IsString(startKey, getDescriptor(indexName).rangeAttribute)
            \/ ~IsString(startKey, getDescriptor(indexName).hashAttribute)
    THEN [err |-> "StartKey", cursor |-> NoCursor]
    ELSE [err |-> "None",
          cursor |-> Cursor(startKey[getDescriptor(indexName).rangeAttribute].s,
                            encodeItemKey(startKey["PK"].s, startKey["SK"].s))]

\* matchesKeyConditionDescriptor
matchesKeyConditionDescriptor(indexName, condition) ==
    IF condition.hashAttribute # getDescriptor(indexName).hashAttribute THEN FALSE
    ELSE IF condition.range.type = "none" THEN TRUE
    ELSE condition.rangeAttribute = getDescriptor(indexName).rangeAttribute

\* resolveIndexName: "throw" for GSI1 and for names that are no index.
resolveIndexName(indexName) ==
    IF indexName = "" THEN PRIMARY_INDEX_NAME
    ELSE IF indexName = "GSI1" THEN "throw"
    ELSE IF indexName \in IndexNames THEN indexName
    ELSE "throw"

\* query from the candidate iteration on.
queryPage(table, params, indexName, cursor) ==
    LET finished(done) ==
            ReadOutput(table, done,
                       IF done.err = "None" /\ done.last # Null
                       THEN buildLastEvaluatedKey(indexName, done.last) ELSE Null)
        items(candidates) == [i \in 1..Len(candidates) |-> candidates[i].item]
    IN finished(candidateLoop(
           items(iterateQueryCandidates(table, indexName,
                                        params.KeyCondition.hashValue.s,
                                        params.KeyCondition.range,
                                        params.ScanIndexForward, cursor)),
           params.FilterExpression, normalizeLimit(params.Limit),
           [err |-> "None", items |-> <<>>, scannedCount |-> 0, last |-> Null]))

\* query once the index is known.
queryIndex(table, params, indexName) ==
    IF params.ConsistentRead /\ indexName # PRIMARY_INDEX_NAME
    THEN ReadFail(table, "ValidationException", "ConsistentRead")
    ELSE IF /\ params.KeyCondition.range.type = "begins_with"
            /\ params.KeyCondition.range.value.t # "S"
    THEN ReadFail(table, "ValidationException", "Expression")
    ELSE IF ~matchesKeyConditionDescriptor(indexName, params.KeyCondition)
    THEN ReadFail(table, "NotSupportedError", "KeyCondition")
    ELSE IF params.KeyCondition.hashValue.t # "S"
    THEN ReadFail(table, "NotSupportedError", "PartitionValue")
    ELSE IF normalizeLimit(params.Limit) = LimitThrows
    THEN ReadFail(table, "ValidationException", "Limit")
    ELSE IF ~params.ExclusiveStartKey.present
    THEN queryPage(table, params, indexName, NoCursor)
    ELSE LET started(resolved) ==
                 IF resolved.err # "None"
                 THEN ReadFail(table, "ValidationException", resolved.err)
                 ELSE queryPage(table, params, indexName, resolved.cursor)
         IN started(resolveExclusiveStartKey(params.ExclusiveStartKey.key, indexName))

query(table, params) ==
    IF params.unsupported THEN ReadFail(table, "NotSupportedError", "Parameter")
    ELSE IF resolveIndexName(params.IndexName) = "throw"
    THEN ReadFail(table, "NotSupportedError", "IndexName")
    ELSE queryIndex(table, params, resolveIndexName(params.IndexName))

scan(table, params) ==
    IF params.unsupported THEN ReadFail(table, "NotSupportedError", "Parameter")
    ELSE IF normalizeLimit(params.Limit) = LimitThrows
    THEN ReadFail(table, "ValidationException", "Limit")
    ELSE IF params.ExclusiveStartKey.present /\ ~assertPrimaryKey(params.ExclusiveStartKey.key)
    THEN ReadFail(table, "ValidationException", "KeyType")
    ELSE LET finished(done) ==
                 ReadOutput(table, done,
                            IF done.err = "None" /\ done.last # Null
                            THEN [PK |-> done.last["PK"], SK |-> done.last["SK"]] ELSE Null)
         IN finished(candidateLoop(scanItems(table, params.ExclusiveStartKey),
                                   params.FilterExpression,
                                   normalizeLimit(params.Limit),
                                   [err |-> "None", items |-> <<>>, scannedCount |-> 0,
                                    last |-> Null]))

\* Object.fromEntries over the sorted items: a later entry replaces an
\* earlier one with the same key.
RECURSIVE fromEntries(_, _)
fromEntries(object, entries) ==
    IF Len(entries) = 0 THEN object
    ELSE fromEntries(Upd(object,
                         StringOf(Head(entries)["PK"]) \o <<CH_UNDERSCORE, CH_UNDERSCORE>>
                             \o StringOf(Head(entries)["SK"]),
                         Head(entries)),
                     Tail(entries))

\* InMemoryTableState.snapshot
snapshot(table) ==
    fromEntries(<<>>, sortItemsByPKSK({cloneItem(table.itemStore[k]) :
                                          k \in DOMAIN table.itemStore}))
-----------------------------------------------------------------------------
(* The requests the operations are called with. *)

MaxBatch == 2   \* most entries of a generated batchWrite request
MaxTx == 2      \* most entries of a generated transactWrite request

PK_P == <<112>>     \* "p"
SK_A == <<97>>      \* "a"
HASH_G == <<103>>   \* "g"
RANGE_R == <<114>>  \* "r"

\* A sort key that holds the separator: "\0" followed by the encoded key of
\* (p, a).
SK_B == ITEM_KEY_SEPARATOR \o encodeItemKey(PK_P, SK_A)

\* A GSI range key that holds the separator: "r\0" followed by the encoded
\* key of (p, SK_B) up to its sort key.
RANGE_LONG ==
    LET keyB == encodeItemKey(PK_P, SK_B)
    IN RANGE_R \o ITEM_KEY_SEPARATOR \o SubSeq(keyB, 1, Len(keyB) - Len(SK_B))

KeyA == [PK |-> S(PK_P), SK |-> S(SK_A)]
KeyB == [PK |-> S(PK_P), SK |-> S(SK_B)]
KeyBad == [PK |-> N(7), SK |-> S(SK_A)]

ItemA0 == KeyA
ItemA1 == [PK |-> S(PK_P), SK |-> S(SK_A), GSI2PK |-> S(HASH_G), GSI2SK |-> S(RANGE_LONG)]
ItemA2 == [PK |-> S(PK_P), SK |-> S(SK_A), GSI2PK |-> S(HASH_G), GSI2SK |-> N(7), u |-> U]
ItemB1 == [PK |-> S(PK_P), SK |-> S(SK_B), GSI2PK |-> S(HASH_G), GSI2SK |-> S(RANGE_R)]
ItemBad == KeyBad

CondExists == Condition(Call1("attribute_exists", "PK"))
CondNotExists == Condition(Call1("attribute_not_exists", "PK"))
CondIndexed ==
    Condition(OrOf(AndOf(Comparison(PathToken("GSI2PK"), "=", ValueToken(S(HASH_G))),
                         Call1("attribute_exists", "GSI2SK")),
                   Call1("attribute_not_exists", "PK")))
CondUnknown == Condition(Call1("unknown", "PK"))

Value(v) == [kind |-> "value", val |-> v]
Path(attr) == [kind |-> "path", attr |-> attr]
ExprSetIndex ==
    [set |-> <<[attr |-> "GSI2PK", rhs |-> Value(S(HASH_G))],
               [attr |-> "GSI2SK", rhs |-> Value(S(RANGE_R))]>>,
     remove |-> <<>>]
ExprRemove == [set |-> <<>>, remove |-> <<"GSI2SK">>]
ExprCopy == [set |-> <<[attr |-> "v", rhs |-> Path("GSI2SK")]>>, remove |-> <<>>]
ExprSetKey == [set |-> <<[attr |-> "PK", rhs |-> Value(S(HASH_G))]>>, remove |-> <<>>]
ExprSetSameKey ==
    [set |-> <<[attr |-> "PK", rhs |-> Value(S(PK_P))], [attr |-> "v", rhs |-> Path("SK")]>>,
     remove |-> <<>>]
ExprRemoveKey == [set |-> <<[attr |-> "v", rhs |-> Value(N(1))]>>, remove |-> <<"SK">>]

PutParams ==
    {[Item |-> i, ConditionExpression |-> NoCondition, unsupported |-> FALSE] :
        i \in {ItemA0, ItemA1, ItemA2, ItemB1, ItemBad}}
    \cup {[Item |-> ItemA0, ConditionExpression |-> CondNotExists, unsupported |-> FALSE],
          [Item |-> ItemA0, ConditionExpression |-> CondUnknown, unsupported |-> FALSE],
          [Item |-> ItemB1, ConditionExpression |-> CondIndexed, unsupported |-> FALSE],
          [Item |-> ItemA1, ConditionExpression |-> NoCondition, unsupported |-> TRUE]}

UpdateParams ==
    {[Key |-> KeyA, UpdateExpression |-> e, ConditionExpression |-> c, unsupported |-> FALSE] :
        e \in {ExprSetIndex, ExprSetKey}, c \in {NoCondition, CondExists}}
    \cup {[Key |-> KeyB, UpdateExpression |-> e, ConditionExpression |-> NoCondition,
           unsupported |-> FALSE] : e \in {ExprRemove, ExprCopy}}
    \cup {[Key |-> KeyA, UpdateExpression |-> e, ConditionExpression |-> NoCondition,
           unsupported |-> FALSE] : e \in {ExprSetSameKey, ExprRemoveKey}}
    \cup {[Key |-> KeyBad, UpdateExpression |-> ExprRemove, ConditionExpression |-> NoCondition,
           unsupported |-> FALSE],
          [Key |-> KeyB, UpdateExpression |-> ExprRemove, ConditionExpression |-> CondUnknown,
           unsupported |-> TRUE]}

DeleteParams ==
    {[Key |-> k, ConditionExpression |-> NoCondition, unsupported |-> FALSE] :
        k \in {KeyA, KeyB, KeyBad}}
    \cup {[Key |-> KeyA, ConditionExpression |-> CondIndexed, unsupported |-> FALSE],
          [Key |-> KeyA, ConditionExpression |-> NoCondition, unsupported |-> TRUE]}

GetParams ==
    {[Key |-> KeyA, unsupported |-> FALSE], [Key |-> KeyBad, unsupported |-> FALSE],
     [Key |-> KeyB, unsupported |-> TRUE]}

PutRequest(item) == [kind |-> "PutRequest", Item |-> item]
DeleteRequest(key) == [kind |-> "DeleteRequest", Key |-> key]
OtherEntry == [kind |-> "Other"]

SeqsUpTo(set, n) == UNION {[1..k -> set] : k \in 1..n}

BatchEntries ==
    {PutRequest(ItemA1), PutRequest(ItemB1), PutRequest(ItemBad), DeleteRequest(KeyA)}

BatchWriteParams ==
    {[RequestItems |-> r, unsupported |-> FALSE] : r \in SeqsUpTo(BatchEntries, MaxBatch)}
    \cup {[RequestItems |-> [i \in 1..(BATCH_WRITE_MAX + 1) |-> PutRequest(ItemA0)],
           unsupported |-> FALSE],
          [RequestItems |-> <<DeleteRequest(KeyB), OtherEntry>>, unsupported |-> FALSE],
          [RequestItems |-> <<PutRequest(ItemA0)>>, unsupported |-> TRUE]}

TxPut(item, cond) == [kind |-> "Put", Item |-> item, ConditionExpression |-> cond]
TxUpdate(key, expr, cond) ==
    [kind |-> "Update", Key |-> key, UpdateExpression |-> expr, ConditionExpression |-> cond]
TxDelete(key, cond) == [kind |-> "Delete", Key |-> key, ConditionExpression |-> cond]
TxCheck(key, cond) == [kind |-> "ConditionCheck", Key |-> key, ConditionExpression |-> cond]

TransactEntries ==
    {TxPut(ItemA1, NoCondition), TxPut(ItemB1, CondNotExists),
     TxUpdate(KeyA, ExprSetKey, NoCondition), TxUpdate(KeyB, ExprRemove, NoCondition),
     TxDelete(KeyA, CondExists), TxCheck(KeyB, CondExists)}

TransactWriteParams ==
    {[TransactItems |-> t, unsupported |-> FALSE] : t \in SeqsUpTo(TransactEntries, MaxTx)}
    \cup {[TransactItems |-> <<>>, unsupported |-> FALSE],
          [TransactItems |-> <<TxPut(ItemB1, NoCondition), OtherEntry>>, unsupported |-> FALSE],
          [TransactItems |-> <<TxPut(ItemA0, NoCondition), TxPut(ItemBad, NoCondition)>>,
           unsupported |-> FALSE],
          [TransactItems |-> [i \in 1..(TRANSACT_WRITE_MAX + 1) |-> TxCheck(KeyA, NoCondition)],
           unsupported |-> FALSE],
          [TransactItems |-> <<TxPut(ItemA0, NoCondition)>>, unsupported |-> TRUE]}

-----------------------------------------------------------------------------
(* The state machine.  A write goes through the tracked client: while       *)
(* isTracking it first captures the keys of the request, and the underlying *)
(* write runs only when the capture has resolved.                           *)

Table == [itemStore |-> itemStore, indexes |-> indexes]

StringKeys(keys) ==
    {<<keys[i]["PK"].s, keys[i]["SK"].s>> : i \in {j \in 1..Len(keys) : assertPrimaryKey(keys[j])}}

Init ==
    /\ itemStore = EmptyTable.itemStore
    /\ indexes = EmptyTable.indexes
    /\ isTracking = FALSE
    /\ trackedKeys = <<>>
    /\ inflight = <<>>
    /\ startStore = <<>>
    /\ written = {}
    /\ result = [op |-> "init", params |-> <<>>, err |-> "None", msg |-> "", dirty |-> FALSE]

\* await captureKeysForOperation(prop, params), when the method was wrapped.
Capture(keys) ==
    IF isTracking THEN captureKeysForOperation(Table, trackedKeys, keys)
    ELSE [trackedKeys |-> trackedKeys, err |-> "None"]

\* The request left the table other than it found it although it threw.
Dirty(outcome) ==
    /\ outcome.err # "None"
    /\ IF "journal" \in DOMAIN outcome THEN Len(outcome.journal) > 0 ELSE outcome.table # Table

\* request.promise() of a write method of the proxy: the capture, then the
\* original promise.
TrackedWrite(op, params, keys, capture, outcome) ==
    IF capture.err = "None"
    THEN /\ itemStore' = outcome.table.itemStore
         /\ indexes' = outcome.table.indexes
         /\ trackedKeys' = capture.trackedKeys
         /\ written' = IF isTracking THEN written \cup StringKeys(keys) ELSE written
         /\ result' = [op |-> op, params |-> params, err |-> outcome.err,
                       msg |-> outcome.msg, dirty |-> Dirty(outcome),
                       out |-> IF "out" \in DOMAIN outcome THEN outcome.out ELSE Null]
         /\ UNCHANGED <<isTracking, startStore, inflight>>
    ELSE /\ trackedKeys' = capture.trackedKeys
         /\ result' = [op |-> op, params |-> params, err |-> capture.err,
                       msg |-> "Capture", dirty |-> FALSE, out |-> Null]
         /\ UNCHANGED <<itemStore, indexes, isTracking, startStore, written, inflight>>

Put(params) ==
    /\ TrackedWrite("put", params, <<params.Item>>, Capture(<<params.Item>>),
                    put(Table, params))

Update(params) ==
    /\ TrackedWrite("update", params, <<params.Key>>, Capture(<<params.Key>>),
                    update(Table, params))

Delete(params) ==
    /\ TrackedWrite("delete", params, <<params.Key>>, Capture(<<params.Key>>),
                    delete(Table, params))

BatchWrite(params) ==
    /\ TrackedWrite("batchWrite", params, batchKeys(params.RequestItems),
                    Capture(batchKeys(params.RequestItems)), batchWrite(Table, params))

TransactWrite(params) ==
    /\ TrackedWrite("transactWrite", params, transactKeys(params.TransactItems),
                    Capture(transactKeys(params.TransactItems)), transactWrite(Table, params))

\* A read is not wrapped by the proxy.
Read(op, params, outcome) ==
    /\ result' = [op |-> op, params |-> params, err |-> outcome.err, msg |-> outcome.msg,
                  dirty |-> FALSE, out |-> outcome.out]
    /\ itemStore' = outcome.table.itemStore
    /\ indexes' = outcome.table.indexes
    /\ UNCHANGED <<isTracking, trackedKeys, startStore, written, inflight>>

Get(params) ==
    /\ Read("get", params, get(Table, params))

Query(params) ==
    /\ Read("query", params, query(Table, params))

Scan(params) ==
    /\ Read("scan", params, scan(Table, params))

\* startTracking without trackedKeys.clear().
StartTrackingKeepsJournal ==
    /\ isTracking' = TRUE
    /\ startStore' = itemStore
    /\ written' = {}
    /\ result' = [op |-> "startTracking", params |-> <<>>, err |-> "None", msg |-> "",
                  dirty |-> FALSE]
    /\ UNCHANGED <<itemStore, indexes, trackedKeys, inflight>>

StartTracking ==
    /\ isTracking' = TRUE
    /\ trackedKeys' = <<>>
    /\ startStore' = itemStore
    /\ written' = {}
    /\ result' = [op |-> "startTracking", params |-> <<>>, err |-> "None", msg |-> "",
                  dirty |-> FALSE]
    /\ UNCHANGED <<itemStore, indexes, inflight>>

\* rollback without the final trackedKeys.clear().
RollbackToKeepsJournal(restored) ==
    /\ isTracking' = FALSE
    /\ itemStore' = restored.itemStore
    /\ indexes' = restored.indexes
    /\ startStore' = <<>>
    /\ result' = [op |-> "rollback", params |-> <<>>, err |-> "None", msg |-> "",
                  dirty |-> restored # Table]
    /\ UNCHANGED <<trackedKeys, written, inflight>>

\* rollback, as one step: the batchWrite calls it awaits, then the clear.
RollbackTo(restored) ==
    /\ isTracking' = FALSE
    /\ itemStore' = restored.itemStore
    /\ indexes' = restored.indexes
    /\ trackedKeys' = <<>>
    /\ startStore' = <<>>
    /\ result' = [op |-> "rollback", params |-> <<>>, err |-> "None", msg |-> "",
                  dirty |-> restored # Table]
    /\ UNCHANGED <<written, inflight>>

Rollback ==
    /\ RollbackTo(trackerRollback(Table, trackedKeys))

\* The document client used directly.
Next ==
    \/ \E params \in PutParams : Put(params)
    \/ \E params \in UpdateParams : Update(params)
    \/ \E params \in DeleteParams : Delete(params)
    \/ \E params \in BatchWriteParams : BatchWrite(params)
    \/ \E params \in TransactWriteParams : TransactWrite(params)
    \/ \E params \in GetParams : Get(params)

Spec == Init /\ [][Next]_vars

-----------------------------------------------------------------------------
(* The tracked client of sandbox.ts: the writes of a test between           *)
(* startTracking and rollback, with keys made of underscores.               *)

PK_U == <<CH_UNDERSCORE>>                  \* "_"
SK_UU == <<CH_UNDERSCORE, CH_UNDERSCORE>>  \* "__"

KeyU1 == [PK |-> S(PK_U), SK |-> S(SK_UU)]
KeyU2 == [PK |-> S(SK_UU), SK |-> S(PK_U)]

ItemV(key, n) == [PK |-> key["PK"], SK |-> key["SK"], v |-> N(n)]

ExprSetV == [set |-> <<[attr |-> "v", rhs |-> Value(N(2))]>>, remove |-> <<>>]

TrackedPutParams ==
    {[Item |-> i, ConditionExpression |-> NoCondition, unsupported |-> FALSE] :
        i \in {ItemV(KeyU1, 1), ItemV(KeyU1, 2), ItemV(KeyU2, 1), ItemV(KeyA, 1), ItemBad}}
    \cup {[Item |-> ItemV(KeyU1, 1), ConditionExpression |-> CondNotExists,
           unsupported |-> FALSE]}

TrackedUpdateParams ==
    {[Key |-> KeyA, UpdateExpression |-> ExprSetV, ConditionExpression |-> NoCondition,
      unsupported |-> FALSE]}

TrackedDeleteParams ==
    {[Key |-> k, ConditionExpression |-> NoCondition, unsupported |-> FALSE] :
        k \in {KeyU1, KeyU2}}
    \cup {[Key |-> KeyA, ConditionExpression |-> CondExists, unsupported |-> FALSE]}

TrackedBatchWriteParams ==
    {[RequestItems |-> r, unsupported |-> FALSE] :
        r \in {<<PutRequest(ItemV(KeyU1, 1)), PutRequest(ItemV(KeyU2, 1))>>,
               <<DeleteRequest(KeyU1), DeleteRequest(KeyA)>>,
               <<PutRequest(ItemV(KeyA, 1)), PutRequest(ItemBad)>>}}

TrackedTransactWriteParams ==
    {[TransactItems |-> t, unsupported |-> FALSE] :
        t \in {<<TxPut(ItemV(KeyU2, 1), NoCondition), TxDelete(KeyA, CondExists)>>,
               <<TxUpdate(KeyA, ExprSetV, NoCondition), TxCheck(KeyU1, CondExists)>>}}

NextTrack ==
    \/ StartTracking
    \/ Rollback
    \/ \E params \in TrackedPutParams : Put(params)
    \/ \E params \in TrackedUpdateParams : Update(params)
    \/ \E params \in TrackedDeleteParams : Delete(params)
    \/ \E params \in TrackedBatchWriteParams : BatchWrite(params)
    \/ \E params \in TrackedTransactWriteParams : TransactWrite(params)

SpecTrack == Init /\ [][NextTrack]_vars


-----------------------------------------------------------------------------
(* Reading a table: items of two partitions, one with a sort key that ends  *)
(* in "\uffff", one with a binary attribute, read by get, query and scan    *)
(* between writes.                                                          *)

MaxLimit == 2   \* largest Limit of a generated query or scan

PK_O == <<111>>              \* "o"
SK_AMAX == <<97, CH_MAX>>    \* "a\uffff"
SK_C == <<99>>               \* "c"
RANGE_Q == <<113>>           \* "q"

KeyQ1 == [PK |-> S(PK_P), SK |-> S(SK_A)]
KeyQ2 == [PK |-> S(PK_P), SK |-> S(SK_AMAX)]
KeyQ3 == [PK |-> S(PK_P), SK |-> S(SK_C)]
KeyQ4 == [PK |-> S(PK_O), SK |-> S(SK_A)]

Indexed(key, range) ==
    [PK |-> key["PK"], SK |-> key["SK"], GSI2PK |-> S(HASH_G), GSI2SK |-> S(range)]

ItemQ1 == Indexed(KeyQ1, RANGE_R)
ItemQ2 == Indexed(KeyQ2, RANGE_R)
ItemQ3 == Indexed(KeyQ3, RANGE_Q)
ItemQ3n == [PK |-> S(PK_P), SK |-> S(SK_C), u |-> U]
ItemQ4 ==
    [PK |-> S(PK_O), SK |-> S(SK_A), GSI2PK |-> S(HASH_G), GSI2SK |-> S(RANGE_Q),
     b |-> B(<<1, 2>>)]

QueryItems == {ItemQ1, ItemQ2, ItemQ3, ItemQ3n, ItemQ4}
QueryKeys == {KeyQ1, KeyQ2, KeyQ3, KeyQ4}

ReadPutParams ==
    {[Item |-> i, ConditionExpression |-> NoCondition, unsupported |-> FALSE] :
        i \in QueryItems}

ReadDeleteParams ==
    {[Key |-> k, ConditionExpression |-> NoCondition, unsupported |-> FALSE] :
        k \in QueryKeys}
    \cup {[Key |-> KeyQ1, ConditionExpression |-> CondExists, unsupported |-> FALSE]}

ReadGetParams == {[Key |-> k, unsupported |-> FALSE] : k \in QueryKeys}

KeyCondition(hashAttribute, hashValue, rangeAttribute, range) ==
    [hashAttribute |-> hashAttribute, hashValue |-> hashValue,
     rangeAttribute |-> rangeAttribute, range |-> range]

\* The range conditions on SK and on GSI2SK.
PrimaryRanges ==
    {NoRange, Compare("=", S(SK_A)), Compare("<", S(SK_C)), Compare("<=", S(SK_A)),
     Compare(">", S(SK_A)), Compare(">=", S(SK_AMAX)), Between(S(SK_A), S(SK_C)),
     Compare("begins_with", S(SK_A))}
IndexRanges ==
    {NoRange, Compare("=", S(RANGE_R)), Between(S(RANGE_Q), S(RANGE_R)),
     Compare("begins_with", S(RANGE_Q))}

NoFilter == NoCondition
FilterIndexed == Condition(Call1("attribute_exists", "GSI2PK"))

Limits == {NoLimit} \cup {Limit(n) : n \in 1..MaxLimit}

QueryRequest(indexName, keyCondition, forward, limit, startKey, filter) ==
    [unsupported |-> FALSE, IndexName |-> indexName, ConsistentRead |-> FALSE,
     KeyCondition |-> keyCondition, ScanIndexForward |-> forward, Limit |-> limit,
     ExclusiveStartKey |-> startKey, FilterExpression |-> filter]

PrimaryCondition(range) == KeyCondition("PK", S(PK_P), "SK", range)
IndexCondition(range) == KeyCondition("GSI2PK", S(HASH_G), "GSI2SK", range)

\* Queries from the start of the range.
FirstPageQueries ==
    {QueryRequest("", PrimaryCondition(r), f, l, NoStartKey, NoFilter) :
        r \in PrimaryRanges, f \in BOOLEAN, l \in Limits}
    \cup {QueryRequest("GSI2", IndexCondition(r), f, l, NoStartKey, NoFilter) :
            r \in IndexRanges, f \in BOOLEAN, l \in Limits}
    \cup {QueryRequest("", PrimaryCondition(r), f, l, NoStartKey, FilterIndexed) :
            r \in {NoRange, Compare(">", S(SK_A))}, f \in BOOLEAN, l \in Limits}

\* Queries that go on from a key.
NextPageQueries ==
    {QueryRequest("", PrimaryCondition(NoRange), f, Limit(1), StartKey(k), NoFilter) :
        f \in BOOLEAN, k \in {KeyQ1, KeyQ3}}
    \cup {QueryRequest("GSI2", IndexCondition(NoRange), f, NoLimit, StartKey(ItemQ1), NoFilter) :
            f \in BOOLEAN}

\* Queries that are refused.
RefusedQueries ==
    {QueryRequest("", PrimaryCondition(NoRange), TRUE, Limit(0), NoStartKey, NoFilter),
     QueryRequest("GSI1", IndexCondition(NoRange), TRUE, NoLimit, NoStartKey, NoFilter),
     QueryRequest("GSI2", PrimaryCondition(NoRange), TRUE, NoLimit, NoStartKey, NoFilter),
     QueryRequest("", KeyCondition("PK", N(7), "SK", NoRange), TRUE, NoLimit, NoStartKey,
                  NoFilter),
     QueryRequest("", PrimaryCondition(Compare("begins_with", N(7))), TRUE, NoLimit,
                  NoStartKey, NoFilter),
     QueryRequest("GSI2", IndexCondition(NoRange), TRUE, NoLimit, StartKey(KeyQ1), NoFilter),
     QueryRequest("", PrimaryCondition(NoRange), TRUE, NoLimit, StartKey(KeyBad), NoFilter),
     QueryRequest("", PrimaryCondition(NoRange), TRUE, NoLimit, NoStartKey, CondUnknown),
     [QueryRequest("GSI2", IndexCondition(NoRange), TRUE, NoLimit, NoStartKey, NoFilter)
         EXCEPT !.ConsistentRead = TRUE],
     [QueryRequest("", PrimaryCondition(NoRange), TRUE, NoLimit, NoStartKey, NoFilter)
         EXCEPT !.unsupported = TRUE]}

\* Limits that are not whole numbers: 0.5 and 1.5.
FractionalLimits == {LimitAndHalf(n) : n \in 0..1}

FractionalLimitQueries ==
    {QueryRequest("", PrimaryCondition(NoRange), TRUE, l, NoStartKey, NoFilter) :
        l \in FractionalLimits}

QueryParams ==
    FirstPageQueries \cup NextPageQueries \cup RefusedQueries \cup FractionalLimitQueries

ScanRequest(limit, startKey, filter) ==
    [unsupported |-> FALSE, Limit |-> limit, ExclusiveStartKey |-> startKey,
     FilterExpression |-> filter]

ScanParams ==
    {ScanRequest(l, k, f) :
        l \in Limits, k \in {NoStartKey, StartKey(KeyQ4), StartKey(KeyQ1)},
        f \in {NoFilter, FilterIndexed}}
    \cup {ScanRequest(l, NoStartKey, NoFilter) : l \in FractionalLimits}
    \cup {ScanRequest(Limit(0), NoStartKey, NoFilter),
          ScanRequest(NoLimit, StartKey(KeyBad), NoFilter),
          ScanRequest(NoLimit, NoStartKey, CondUnknown),
          [ScanRequest(NoLimit, NoStartKey, NoFilter) EXCEPT !.unsupported = TRUE]}

NextQuery ==
    \/ \E params \in ReadPutParams : Put(params)
    \/ \E params \in ReadDeleteParams : Delete(params)
    \/ \E params \in ReadGetParams : Get(params)
    \/ \E params \in QueryParams : Query(params)
    \/ \E params \in ScanParams : Scan(params)

SpecQuery == Init /\ [][NextQuery]_vars

-----------------------------------------------------------------------------
(* Updating: SET of a value, of a counter made with if_not_exists and +,    *)
(* REMOVE, upsert on an empty key, ReturnValues.                            *)

MaxCount == 4   \* an increment is generated while the counter stays within it
MaxIncrement == 2   \* largest :inc of a generated increment
MaxUpdates == 3     \* longest run of increments followed from one table

STR_X == <<120>>   \* "x"
STR_Y == <<121>>   \* "y"

ItemW == [PK |-> S(PK_P), SK |-> S(SK_A), a |-> S(STR_X), d |-> N(1)]

Plus(left, right) == [kind |-> "plus", left |-> left, right |-> right]
IfNotExists(attr, fallback) == [kind |-> "if_not_exists", attr |-> attr, fallback |-> fallback]

\* SET a = :v
ExprSetA(v) == [set |-> <<[attr |-> "a", rhs |-> Value(v)]>>, remove |-> <<>>]
\* SET c = if_not_exists(c, :z) + :inc
ExprIncrement(z, inc) ==
    [set |-> <<[attr |-> "c", rhs |-> Plus(IfNotExists("c", Value(N(z))), Value(N(inc)))]>>,
     remove |-> <<>>]
\* SET c = :s
ExprSetC(v) == [set |-> <<[attr |-> "c", rhs |-> Value(v)]>>, remove |-> <<>>]
\* SET d = a + :one
ExprSumOfA == [set |-> <<[attr |-> "d", rhs |-> Plus(Path("a"), Value(N(1)))]>>,
               remove |-> <<>>]
\* REMOVE c, d
ExprRemoveCD == [set |-> <<>>, remove |-> <<"c", "d">>]

UpdateRequest(key, expr, cond, returnValues) ==
    [Key |-> key, UpdateExpression |-> expr, ConditionExpression |-> cond,
     ReturnValues |-> returnValues, unsupported |-> FALSE]

SetUpdateParams ==
    {UpdateRequest(KeyQ1, ExprSetA(v), c, r) :
        v \in {S(STR_Y), N(2), B(<<1, 2>>)}, c \in {NoCondition, CondExists},
        r \in {"NONE", "ALL_NEW"}}
    \cup {UpdateRequest(KeyQ4, ExprSetA(S(STR_Y)), c, "ALL_NEW") :
            c \in {NoCondition, CondNotExists}}
    \cup {UpdateRequest(KeyQ1, e, NoCondition, "ALL_NEW") :
            e \in {ExprSetC(S(STR_X)), ExprSumOfA, ExprRemoveCD}}
    \cup {UpdateRequest(KeyQ1, ExprSetA(N(2)), NoCondition, "ALL_OLD")}

IncrementParams ==
    {UpdateRequest(KeyQ1, ExprIncrement(1, inc), NoCondition, r) :
        inc \in 1..MaxIncrement, r \in {"NONE", "ALL_NEW"}}

\* The counter an increment would store is within MaxCount.
WithinMaxCount(params) ==
    LET counted(stored) ==
            stored.t = "N" => stored.n <= MaxCount
    IN counted(resolveUpdateSetValueToken(
                   params.UpdateExpression.set[1].rhs,
                   cloneItemByKey(Table, params.Key["PK"].s, params.Key["SK"].s)))

Increment(params) ==
    /\ WithinMaxCount(params)
    /\ Update(params)

UpdatePutParams ==
    {[Item |-> ItemW, ConditionExpression |-> NoCondition, unsupported |-> FALSE]}

UpdateDeleteParams ==
    {[Key |-> k, ConditionExpression |-> NoCondition, unsupported |-> FALSE] :
        k \in {KeyQ1, KeyQ4}}

NextUpdate ==
    \/ \E params \in UpdatePutParams : Put(params)
    \/ \E params \in SetUpdateParams : Update(params)
    \/ \E params \in IncrementParams : Increment(params)
    \/ \E params \in UpdateDeleteParams : Delete(params)
    \/ \E params \in {[Key |-> k, unsupported |-> FALSE] : k \in {KeyQ1, KeyQ4}} : Get(params)

SpecUpdate == Init /\ [][NextUpdate]_vars

-----------------------------------------------------------------------------
(* Conditions and filters: clauses of every kind over attributes that are   *)
(* present, missing or null, alone and joined by AND and OR, as the         *)
(* ConditionExpression of a delete and as the FilterExpression of a scan.   *)

STR_XY == <<120, 121>>       \* "xy"
TYPE_N == <<78>>             \* "N"
TYPE_NULL == <<78, 85, 76, 76>>   \* "NULL"

\* a is a number, s a string, z is null; no item has an attribute m.
ItemC1 == [PK |-> S(PK_P), SK |-> S(SK_A), a |-> N(2), s |-> S(STR_XY), z |-> NULL]
ItemC3 == [PK |-> S(PK_P), SK |-> S(SK_C), a |-> N(5)]
CondItems == {ItemC1, ItemC3}
CondKeys == {KeyQ1, KeyQ3}

Operators == {"=", "<>", "<", "<=", ">", ">="}

ExistenceClauses ==
    {Call1(f, attr) : f \in {"attribute_exists", "attribute_not_exists"},
                      attr \in {"a", "z", "m"}}

ComparisonClauses ==
    {Comparison(PathToken(attr), op, ValueToken(N(2))) : attr \in {"a", "m"}, op \in Operators}
    \cup {Comparison(ValueToken(N(2)), "<", PathToken("m")),
          Comparison(PathToken("z"), "=", ValueToken(NULL))}

FunctionClauses ==
    {Call2("begins_with", attr, ValueToken(S(STR_X))) : attr \in {"s", "m"}}
    \cup {Call2("contains", attr, ValueToken(S(STR_Y))) : attr \in {"s", "m"}}
    \cup {Call2("attribute_type", attr, ValueToken(S(TYPE_N))) : attr \in {"a", "s", "m"}}
    \cup {Call2("attribute_type", "z", ValueToken(S(TYPE_NULL))),
          Call2("attribute_type", "m", ValueToken(N(1))),
          Call2("attribute_type", "a", ValueToken(N(1)))}

BetweenClauses ==
    {BetweenClause(attr, ValueToken(N(lower)), ValueToken(N(lower + 2))) :
        attr \in {"a", "m"}, lower \in {1, 3}}

UnknownClause == Call1("unknown", "a")

\* A clause that is true of every item, and one that is false of every item.
TrueClause == Call1("attribute_exists", "PK")
FalseClause == Call1("attribute_not_exists", "PK")

JoinedExpressions ==
    {AndOf(first, UnknownClause) : first \in {TrueClause, FalseClause}}
    \cup {OrOf(first, UnknownClause) : first \in {TrueClause, FalseClause}}
    \cup {AndOf(UnknownClause, TrueClause), OrOf(UnknownClause, TrueClause)}
    \cup {AndOf(first, BetweenClause("a", ValueToken(N(1)), ValueToken(N(3)))) :
            first \in {TrueClause, FalseClause}}
    \cup {OrOf(first, BetweenClause("a", ValueToken(N(1)), ValueToken(N(3)))) :
            first \in {TrueClause, FalseClause}}

Expressions ==
    ExistenceClauses \cup ComparisonClauses \cup FunctionClauses \cup BetweenClauses
    \cup {UnknownClause} \cup JoinedExpressions

CondPutParams ==
    {[Item |-> i, ConditionExpression |-> NoCondition, unsupported |-> FALSE] :
        i \in CondItems}

CondDeleteParams ==
    {[Key |-> k, ConditionExpression |-> Condition(e), unsupported |-> FALSE] :
        k \in CondKeys, e \in Expressions}

CondScanParams ==
    {ScanRequest(NoLimit, NoStartKey, Condition(e)) : e \in Expressions}

NextCond ==
    \/ \E params \in CondPutParams : Put(params)
    \/ \E params \in CondDeleteParams : Delete(params)
    \/ \E params \in CondScanParams : Scan(params)

SpecCond == Init /\ [][NextCond]_vars

-----------------------------------------------------------------------------
(* Item keys: puts of items whose PK and SK are made of the separator, the  *)
(* colon and a digit, the characters the encoding of a key is written with. *)

MaxPKLen == 2    \* longest PK of a generated key
MaxSKLen == 1    \* longest SK of a generated key
MaxStored == 2   \* a put is generated while the table holds at most so many items

CH_ONE == 49     \* "1"

KeyChars == {NUL, CH_COLON, CH_ONE}

StringsUpTo(n) == {<<>>} \cup UNION {[1..k -> KeyChars] : k \in 1..n}

KeyedItems == {[PK |-> S(pk), SK |-> S(sk)] : pk \in StringsUpTo(MaxPKLen),
                                              sk \in StringsUpTo(MaxSKLen)}

KeyedPutParams ==
    {[Item |-> i, ConditionExpression |-> NoCondition, unsupported |-> FALSE] :
        i \in KeyedItems}

\* The table holds at most MaxStored items once the item is put.
WithinMaxStored(params) ==
    Cardinality(DOMAIN itemStore
                \cup {encodeItemKey(params.Item["PK"].s, params.Item["SK"].s)}) <= MaxStored

KeyedPut(params) ==
    /\ WithinMaxStored(params)
    /\ Put(params)

NextKeys ==
    \/ \E params \in KeyedPutParams : KeyedPut(params)

SpecKeys == Init /\ [][NextKeys]_vars

-----------------------------------------------------------------------------
(* Objects: the caller hands items and map values it keeps a reference to,  *)
(* and changes them, and the items it was returned, after the call.  Each   *)
(* object the table stores is told from every other by its identity.        *)

MaxCallerObjects == 3   \* the objects the caller makes: two items and a map

STR_M == <<109>>   \* "m"

AliasItem1 == [PK |-> S(PK_P), SK |-> S(SK_A), a |-> S(STR_X), SymbolId |-> ID(1, <<>>)]
AliasItem2 ==
    [PK |-> S(PK_P), SK |-> S(SK_C), GSI2PK |-> S(HASH_G), GSI2SK |-> S(RANGE_R),
     a |-> S(STR_Y), SymbolId |-> ID(2, <<>>)]
AliasItems == {AliasItem1, AliasItem2}
AliasKeys == {KeyQ1, KeyQ3}

\* The map {x: ...} the caller hands as :v.
AliasMap == [t |-> "M", s |-> <<1, 2>>, n |-> MaxCallerObjects]

\* An object the table has stored gets its identity, unless it is an object
\* that has one: the caller's.
brand(store) ==
    [k \in DOMAIN store |->
        IF OBJECT_ID \in DOMAIN store[k] THEN store[k]
        ELSE [b \in DOMAIN store[k] \cup {OBJECT_ID} |->
                 IF b = OBJECT_ID THEN ID(0, k) ELSE store[k][b]]]

Branded(outcome) ==
    [outcome EXCEPT !.table = [itemStore |-> brand(outcome.table.itemStore),
                               indexes |-> outcome.table.indexes]]

AliasPutParams ==
    {[Item |-> i, ConditionExpression |-> NoCondition, unsupported |-> FALSE] :
        i \in AliasItems}

AliasUpdateParams ==
    {UpdateRequest(k, ExprSetA(AliasMap), NoCondition, r) :
        k \in AliasKeys, r \in {"NONE", "ALL_NEW"}}

AliasBatchWriteParams ==
    {[RequestItems |-> r, unsupported |-> FALSE] :
        r \in {<<PutRequest(AliasItem1)>>, <<PutRequest(AliasItem2), PutRequest(AliasItem1)>>}}

AliasTransactWriteParams ==
    {[TransactItems |-> t, unsupported |-> FALSE] :
        t \in {<<TxPut(AliasItem2, NoCondition)>>,
               <<TxPut(AliasItem1, CondNotExists), TxDelete(KeyQ3, NoCondition)>>}}

AliasDeleteParams ==
    {[Key |-> k, ConditionExpression |-> NoCondition, unsupported |-> FALSE] : k \in AliasKeys}

AliasQueryParams ==
    {QueryRequest("", PrimaryCondition(NoRange), TRUE, NoLimit, NoStartKey, NoFilter),
     QueryRequest("GSI2", IndexCondition(NoRange), FALSE, NoLimit, NoStartKey, NoFilter)}

WholeScan == ScanRequest(NoLimit, NoStartKey, NoFilter)

AliasPut(params) ==
    /\ TrackedWrite("put", params, <<params.Item>>, Capture(<<params.Item>>),
                    Branded(put(Table, params)))

AliasUpdate(params) ==
    /\ TrackedWrite("update", params, <<params.Key>>, Capture(<<params.Key>>),
                    Branded(update(Table, params)))

AliasBatchWrite(params) ==
    /\ TrackedWrite("batchWrite", params, batchKeys(params.RequestItems),
                    Capture(batchKeys(params.RequestItems)),
                    Branded(batchWrite(Table, params)))

AliasTransactWrite(params) ==
    /\ TrackedWrite("transactWrite", params, transactKeys(params.TransactItems),
                    Capture(transactKeys(params.TransactItems)),
                    Branded(transactWrite(Table, params)))

\* __inMemorySnapshot
Snapshot ==
    /\ Read("snapshot", <<>>,
            [table |-> Table, err |-> "None", msg |-> "", out |-> snapshot(Table)])

\* The items a finished call has returned.
ReturnedItems(res) ==
    IF res.op \notin {"get", "update", "query", "scan", "snapshot"} THEN {}
    ELSE IF res.err # "None" THEN {}
    ELSE IF res.op = "snapshot" THEN {res.out[k] : k \in DOMAIN res.out}
    ELSE IF res.op \in {"query", "scan"}
    THEN {res.out.Items[i] : i \in 1..Len(res.out.Items)}
    ELSE IF res.out = Null THEN {}
    ELSE {res.out}

\* The identities of an item and of the maps it holds.
IdentitiesOf(item) ==
    {item[b] : b \in {c \in DOMAIN item : item[c].t = "ID"}}
    \cup {ID(item[b].n, <<>>) : b \in {c \in DOMAIN item : item[c].t = "M" /\ item[c].n > 0}}

\* What the objects of the given identities look like once the caller has
\* changed them: an item has its attribute a set to "m", a map is emptied.
changedItem(item, ids) ==
    LET hit == OBJECT_ID \in DOMAIN item /\ item[OBJECT_ID] \in ids
    IN [b \in DOMAIN item \cup (IF hit THEN {"a"} ELSE {}) |->
           IF hit /\ b = "a" THEN S(STR_M)
           ELSE IF item[b].t = "M" /\ item[b].n > 0 /\ ID(item[b].n, <<>>) \in ids
           THEN [item[b] EXCEPT !.s = <<>>]
           ELSE item[b]]

\* The caller changes objects: in the table every object of one of the
\* identities changes with them, nothing else does.
Mutate(ids, returned) ==
    /\ itemStore' = [k \in DOMAIN itemStore |-> changedItem(itemStore[k], ids)]
    /\ result' = [op |-> "mutate",
                  params |-> [ids |-> ids, after |-> result.op, returned |-> returned],
                  err |-> "None", msg |-> "", dirty |-> FALSE, out |-> Null]
    /\ UNCHANGED <<indexes, isTracking, trackedKeys, startStore, written, inflight>>

\* The caller changes an object it has made and may have handed in.
MutateOwn(n) ==
    /\ result.op # "mutate"
    /\ Mutate({ID(n, <<>>)}, FALSE)

\* The caller changes the items the last call has returned.
MutateReturned ==
    /\ ReturnedItems(result) # {}
    /\ Mutate(UNION {IdentitiesOf(item) : item \in ReturnedItems(result)}, TRUE)

NextAlias ==
    \/ \E params \in AliasPutParams : AliasPut(params)
    \/ \E params \in AliasUpdateParams : AliasUpdate(params)
    \/ \E params \in AliasBatchWriteParams : AliasBatchWrite(params)
    \/ \E params \in AliasTransactWriteParams : AliasTransactWrite(params)
    \/ \E params \in AliasDeleteParams : Delete(params)
    \/ \E k \in AliasKeys : Get([Key |-> k, unsupported |-> FALSE])
    \/ \E params \in AliasQueryParams : Query(params)
    \/ Scan(WholeScan)
    \/ Snapshot
    \/ \E n \in 1..MaxCallerObjects : MutateOwn(n)
    \/ MutateReturned

SpecAlias == Init /\ [][NextAlias]_vars
-----------------------------------------------------------------------------
(* DeterministicTreap on its own: insert, remove, clear and iterate called  *)
(* on the tree of one partition, with keys and priorities of the caller's   *)
(* choice.  The value of an entry is its key.                               *)

MaxPriority == 3

KEY_AB == <<97, 98>>   \* "ab"
KEY_B == <<98>>        \* "b"

TreapKeys == {SK_A, KEY_AB, KEY_B, SK_C}
\* The bounds lie at two of the keys: the trees hold keys below, at, between
\* and above them.
TreapBoundKeys == {KEY_AB, KEY_B}
TreapBoundSides == {NoBound} \cup {Bound(k, i) : k \in TreapBoundKeys, i \in BOOLEAN}
TreapBounds == {[lower |-> l, upper |-> u] : l \in TreapBoundSides, u \in TreapBoundSides}

\* The tree of partition "p" of the primary index.
treapOf(idx) ==
    IF PK_P \in DOMAIN idx[PRIMARY_INDEX_NAME] THEN idx[PRIMARY_INDEX_NAME][PK_P]
    ELSE EmptyTreap

TheTreap == treapOf(indexes)

TreapCall(op, params, tree, out) ==
    /\ indexes' = [indexes EXCEPT ![PRIMARY_INDEX_NAME] = Upd(@, PK_P, tree)]
    /\ result' = [op |-> op, params |-> params, err |-> "None", msg |-> "", dirty |-> FALSE,
                  out |-> out]
    /\ UNCHANGED <<itemStore, isTracking, trackedKeys, startStore, written, inflight>>

\* DeterministicTreap.insert
InsertEntry(key, priority) ==
    /\ TreapCall("insert", [key |-> key, priority |-> priority],
                 TreapInsert(TheTreap, key, key, priority), Null)

\* DeterministicTreap.remove: returns removed.
RemoveEntry(key) ==
    /\ TreapCall("remove", [key |-> key], TreapRemove(TheTreap, key),
                 removeNode(TheTreap.root, key)[2])

\* DeterministicTreap.clear
ClearEntries ==
    /\ TheTreap.size > 0
    /\ TreapCall("clear", <<>>, EmptyTreap, Null)

\* DeterministicTreap.iterate, read to its end.
IterateEntries(direction, bounds) ==
    /\ TheTreap.size > 0
    /\ TreapCall("iterate", [direction |-> direction, bounds |-> bounds], TheTreap,
                 iterate(TheTreap.root, direction, bounds))

NextTreap ==
    \/ \E key \in TreapKeys, priority \in 1..MaxPriority : InsertEntry(key, priority)
    \/ \E key \in TreapKeys : RemoveEntry(key)
    \/ ClearEntries
    \/ \E direction \in {"asc", "desc"}, bounds \in TreapBounds :
           IterateEntries(direction, bounds)

SpecTreap == Init /\ [][NextTreap]_vars

-----------------------------------------------------------------------------
(* Document paths: SET of a list element, l[N] = :v, on items whose         *)
(* attribute l is a list, is no list, or is absent.                          *)

MaxIndex == 3     \* largest list index of a generated path
MaxListLen == 3   \* a SET l[N] is generated while the list is at most so long

ItemL0 == [PK |-> S(PK_P), SK |-> S(SK_A), l |-> L(<<>>)]
ItemL2 == [PK |-> S(PK_P), SK |-> S(SK_A), l |-> L(<<1, 2>>)]
ItemLS == [PK |-> S(PK_P), SK |-> S(SK_C), l |-> S(STR_X)]
ItemLNone == [PK |-> S(PK_P), SK |-> S(SK_C)]
PathItems == {ItemL0, ItemL2, ItemLS, ItemLNone}
PathKeys == {KeyQ1, KeyQ3}

\* SET attr[index] = :v
ExprSetElement(attr, index, v) ==
    [set |-> <<[attr |-> attr, index |-> index, rhs |-> Value(v)]>>, remove |-> <<>>]

ElementUpdateParams ==
    {UpdateRequest(k, ExprSetElement("l", index, N(v)), NoCondition, r) :
        k \in PathKeys, index \in 0..MaxIndex, v \in {7, 8}, r \in {"NONE", "ALL_NEW"}}
    \cup {UpdateRequest(KeyQ1, ExprSetElement("SK", 0, N(7)), NoCondition, "NONE")}

\* The list the update would write to is no longer than MaxListLen.
WithinMaxListLen(params) ==
    LET short(existing) ==
            IF existing = Null THEN TRUE
            ELSE IF "l" \notin DOMAIN existing THEN TRUE
            ELSE IF existing["l"].t # "L" THEN TRUE
            ELSE Len(existing["l"].s) <= MaxListLen
    IN short(cloneItemByKey(Table, params.Key["PK"].s, params.Key["SK"].s))

SetElement(params) ==
    /\ WithinMaxListLen(params)
    /\ Update(params)

NextPath ==
    \/ \E item \in PathItems :
           Put([Item |-> item, ConditionExpression |-> NoCondition, unsupported |-> FALSE])
    \/ \E params \in ElementUpdateParams : SetElement(params)
    \/ \E k \in PathKeys :
           Delete([Key |-> k, ConditionExpression |-> NoCondition, unsupported |-> FALSE])
    \/ \E k \in PathKeys : Get([Key |-> k, unsupported |-> FALSE])

SpecPath == Init /\ [][NextPath]_vars

-----------------------------------------------------------------------------
(* Writes in flight: the promise of a tracked write runs in three steps,    *)
(* the call (captureKey up to its await), the resumption of captureKey      *)
(* (trackedKeys.set) and the original promise (the write).  The steps of    *)
(* requests called before the earlier ones have completed interleave.       *)

MaxInFlight == 2   \* most requests pending at a time

RaceItems ==
    {[PK |-> S(PK_P), SK |-> S(SK_A), v |-> N(n)] : n \in 1..2}
    \cup {[PK |-> S(PK_P), SK |-> S(SK_C), v |-> N(1)]}
RaceKeys == {KeyQ1, KeyQ3}

RaceRequests ==
    {[op |-> "put",
      params |-> [Item |-> i, ConditionExpression |-> NoCondition, unsupported |-> FALSE]] :
        i \in RaceItems}
    \cup {[op |-> "delete",
           params |-> [Key |-> KeyQ1, ConditionExpression |-> NoCondition,
                       unsupported |-> FALSE]]}
    \cup {[op |-> "update", params |-> UpdateRequest(KeyQ1, ExprSetV, NoCondition, "NONE")]}

\* The key a request writes to.
KeyOfRequest(request) ==
    IF request.op = "put"
    THEN [PK |-> request.params.Item["PK"], SK |-> request.params.Item["SK"]]
    ELSE request.params.Key

\* What the original promise of a request does to the table.
originalPromise(table, request) ==
    IF request.op = "put" THEN put(table, request.params)
    ELSE IF request.op = "delete" THEN delete(table, request.params)
    ELSE update(table, request.params)

\* history: the pending request i has had another request to its key pending
\* beside it.
Raced(pending, key) ==
    [i \in 1..Len(pending) |->
        IF KeyOfRequest(pending[i].request) = key THEN [pending[i] EXCEPT !.raced = TRUE]
        ELSE pending[i]]

\* A write is put in the table before tracking starts.
Seed(params) ==
    /\ ~isTracking
    /\ Put(params)

\* proxy.put(params).promise(), and likewise update and delete, while
\* tracking: captureKeysForOperation runs up to the await of the get.
Call(request) ==
    /\ isTracking
    /\ Len(inflight) < MaxInFlight
    /\ inflight' =
           Append(Raced(inflight, KeyOfRequest(request)),
                  [request |-> request, stage |-> "capturing",
                   gets |-> captureGets(Table, trackedKeys, <<KeyOfRequest(request)>>),
                   raced |-> \E i \in 1..Len(inflight) :
                                 KeyOfRequest(inflight[i].request) = KeyOfRequest(request)])
    /\ result' = [op |-> "call", params |-> request.params, err |-> "None", msg |-> "",
                  dirty |-> FALSE, out |-> Null]
    /\ UNCHANGED <<itemStore, indexes, isTracking, trackedKeys, startStore, written>>

\* captureKey resumes after its await: trackedKeys.set.
Resume(i) ==
    /\ inflight[i].stage = "capturing"
    /\ trackedKeys' = captureSets(trackedKeys, inflight[i].gets.entries)
    /\ inflight' = [inflight EXCEPT ![i].stage = "captured"]
    /\ result' = [op |-> "resume", params |-> inflight[i].request.params, err |-> "None",
                  msg |-> "", dirty |-> FALSE, out |-> Null]
    /\ UNCHANGED <<itemStore, indexes, isTracking, startStore, written>>

\* return origPromise(): the write itself, and the promise settles.
Settle(i, outcome) ==
    /\ inflight[i].stage = "captured"
    /\ itemStore' = outcome.table.itemStore
    /\ indexes' = outcome.table.indexes
    /\ written' = written \cup StringKeys(<<KeyOfRequest(inflight[i].request)>>)
    /\ inflight' = [j \in 1..(Len(inflight) - 1) |->
                       IF j < i THEN inflight[j] ELSE inflight[j + 1]]
    /\ result' = [op |-> inflight[i].request.op, params |-> inflight[i].request.params,
                  err |-> outcome.err, msg |-> outcome.msg, dirty |-> Dirty(outcome),
                  out |-> IF "out" \in DOMAIN outcome THEN outcome.out ELSE Null,
                  raced |-> inflight[i].raced]
    /\ UNCHANGED <<isTracking, trackedKeys, startStore>>

\* startTracking and rollback, called when no write is pending.
StartTrackingIdle ==
    /\ inflight = <<>>
    /\ StartTracking

RollbackIdle ==
    /\ inflight = <<>>
    /\ Rollback

NextRace ==
    \/ \E item \in RaceItems :
           Seed([Item |-> item, ConditionExpression |-> NoCondition, unsupported |-> FALSE])
    \/ \E request \in RaceRequests : Call(request)
    \/ \E i \in 1..Len(inflight) : Resume(i)
    \/ \E i \in 1..Len(inflight) : Settle(i, originalPromise(Table, inflight[i].request))
    \/ StartTrackingIdle
    \/ RollbackIdle

SpecRace == Init /\ [][NextRace]_vars

-----------------------------------------------------------------------------
(* transactWrite on keys that hold colons, the separator of its markers.    *)

MaxMarkerStored == 2   \* a transactWrite is generated while the table holds at most so many items

MarkerStrings == {<<CH_COLON>>, <<CH_COLON, CH_COLON>>, SK_A}
MarkerKeys == {[PK |-> S(pk), SK |-> S(sk)] : pk \in MarkerStrings, sk \in MarkerStrings}
MarkerItem(key) == [PK |-> key["PK"], SK |-> key["SK"], v |-> N(1)]

MarkerTransactions ==
    {[TransactItems |-> <<TxPut(MarkerItem(k), NoCondition)>>, unsupported |-> FALSE] :
        k \in MarkerKeys}
    \cup {[TransactItems |-> <<TxPut(MarkerItem(k1), NoCondition), TxDelete(k2, NoCondition)>>,
           unsupported |-> FALSE] : k1 \in MarkerKeys, k2 \in MarkerKeys}

MarkerTransactWrite(params) ==
    /\ Cardinality(DOMAIN itemStore) <= MaxMarkerStored
    /\ TransactWrite(params)

NextMarker ==
    \/ \E params \in MarkerTransactions : MarkerTransactWrite(params)
    \/ \E k \in MarkerKeys :
           Delete([Key |-> k, ConditionExpression |-> NoCondition, unsupported |-> FALSE])

SpecMarker == Init /\ [][NextMarker]_vars

-----------------------------------------------------------------------------
(* Update expressions of several clauses: SET assignments that read the     *)
(* attributes other assignments write, SET and REMOVE of one attribute, and *)
(* REMOVE written before SET.                                               *)

MaxAssigned == 3   \* a sum is generated while the attributes stay within it

ItemAB(key, a, b) == [PK |-> key["PK"], SK |-> key["SK"], a |-> N(a), b |-> N(b)]
ItemAOnly(key, a) == [PK |-> key["PK"], SK |-> key["SK"], a |-> N(a)]

AssignKeys == {KeyQ1}

AssignItems ==
    {ItemAB(KeyQ1, a, b) : a \in {1, 2}, b \in {0, 1}}
    \cup {ItemAOnly(k, 1) : k \in AssignKeys}

Assignment(attr, rhs) == [attr |-> attr, rhs |-> rhs]

AssignExpressions ==
    \* SET a = :v, b = a  and  SET b = a, a = :v
    {[set |-> <<Assignment("a", Value(N(0))), Assignment("b", Path("a"))>>, remove |-> <<>>],
     [set |-> <<Assignment("b", Path("a")), Assignment("a", Value(N(0)))>>, remove |-> <<>>],
     \* SET a = b, b = a
     [set |-> <<Assignment("a", Path("b")), Assignment("b", Path("a"))>>, remove |-> <<>>],
     \* SET a = a + :one, b = a + :one
     [set |-> <<Assignment("a", Plus(Path("a"), Value(N(1)))),
                Assignment("b", Plus(Path("a"), Value(N(1))))>>, remove |-> <<>>],
     \* SET b = if_not_exists(b, a), a = :v
     [set |-> <<Assignment("b", IfNotExists("b", Path("a"))),
                Assignment("a", Value(N(0)))>>, remove |-> <<>>],
     \* SET a = :v, a = :w
     [set |-> <<Assignment("a", Value(N(0))), Assignment("a", Value(N(2)))>>,
      remove |-> <<>>],
     \* SET a = :v REMOVE a
     [set |-> <<Assignment("a", Value(N(2)))>>, remove |-> <<"a">>],
     \* SET b = a, c = b REMOVE a, b
     [set |-> <<Assignment("b", Path("a")), Assignment("c", Path("b"))>>,
      remove |-> <<"a", "b">>],
     \* SET b = a REMOVE a
     [set |-> <<Assignment("b", Path("a"))>>, remove |-> <<"a">>],
     \* REMOVE a SET b = :v
     [set |-> <<Assignment("b", Value(N(2)))>>, remove |-> <<"a">>, order |-> "REMOVE SET"],
     \* REMOVE b
     [set |-> <<>>, remove |-> <<"b">>, order |-> "REMOVE SET"]}

AssignParams ==
    {UpdateRequest(k, e, NoCondition, r) :
        k \in AssignKeys, e \in AssignExpressions, r \in {"ALL_NEW"}}

\* Every number the update would store is within MaxAssigned.
WithinMaxAssigned(params) ==
    LET within(outcome) ==
            outcome.err = "None" =>
                \A attr \in DOMAIN outcome.next :
                    outcome.next[attr].t = "N" => outcome.next[attr].n <= MaxAssigned
    IN within(applyUpdate(Table, params.Key, params.UpdateExpression,
                          params.ConditionExpression))

Assign(params) ==
    /\ WithinMaxAssigned(params)
    /\ Update(params)

AssignPutParams ==
    {[Item |-> item, ConditionExpression |-> NoCondition, unsupported |-> FALSE] :
        item \in AssignItems}

AssignDeleteParams ==
    {[Key |-> k, ConditionExpression |-> NoCondition, unsupported |-> FALSE] :
        k \in AssignKeys}

NextAssign ==
    \/ \E params \in AssignPutParams : Put(params)
    \/ \E params \in AssignParams : Assign(params)
    \/ \E params \in AssignDeleteParams : Delete(params)

SpecAssign == Init /\ [][NextAssign]_vars
-----------------------------------------------------------------------------
(* Properties of the table state *)

\* The entries of an index, as <<hash key, entry key, item key>>.
AllEntries(name) ==
    UNION {{<<h, InOrder(indexes[name][h].root)[j][1], InOrder(indexes[name][h].root)[j][2]>> :
               j \in 1..Len(InOrder(indexes[name][h].root))} :
             h \in DOMAIN indexes[name]}

\* The one entry an item must have in an index, as a set: empty when the
\* item does not hold the index's hash and range attribute as strings.
ExpectedEntries(projected, itemKey) ==
    IF projected = Null THEN {}
    ELSE {<<projected.hash, encodeIndexEntryKey(projected.range, itemKey), itemKey>>}

\* C1: after any sequence of put, update, delete, batchWrite and
\* transactWrite calls, every stored item has exactly one entry in each
\* index whose hash and range attribute it holds as strings and none in the
\* other indexes, and no index holds an entry of an item that is not stored.
C1_IndexesInSync ==
    \A i \in 1..Len(INDEX_DESCRIPTORS) :
        /\ \A itemKey \in DOMAIN itemStore :
              {e \in AllEntries(INDEX_DESCRIPTORS[i].name) : e[3] = itemKey}
                  = ExpectedEntries(getIndexKeyFromItem(INDEX_DESCRIPTORS[i],
                                                        itemStore[itemKey]),
                                    itemKey)
        /\ \A e \in AllEntries(INDEX_DESCRIPTORS[i].name) : e[3] \in DOMAIN itemStore

\* C9: every stored item has string PK and SK and is stored under the
\* encoded key of its own (PK, SK), and no two stored items have the same
\* (PK, SK).
C9_PrimaryKeyInvariant ==
    /\ \A itemKey \in DOMAIN itemStore :
          /\ assertPrimaryKey(itemStore[itemKey])
          /\ itemKey = encodeItemKey(itemStore[itemKey]["PK"].s, itemStore[itemKey]["SK"].s)
    /\ \A k1, k2 \in DOMAIN itemStore :
          (/\ itemStore[k1]["PK"] = itemStore[k2]["PK"]
           /\ itemStore[k1]["SK"] = itemStore[k2]["SK"]) => k1 = k2

\* C9 happens: two items of one partition are stored, one of them under a
\* sort key that holds the separator, and an update has just gone through.
C9_Witness ==
    /\ Cardinality(DOMAIN itemStore) = 2
    /\ result.op = "update"
    /\ result.err = "None"

\* An encoded key holds the same item, or none, in two item stores.
Same(before, after, itemKey) ==
    /\ itemKey \in DOMAIN before <=> itemKey \in DOMAIN after
    /\ itemKey \in DOMAIN before => before[itemKey] = after[itemKey]

C5_ErrorsLeaveTable ==
    [][(result'.err \in {"ValidationException", "NotSupportedError"})
          => itemStore' = itemStore]_vars

\* The key a put, update or delete request names.
RequestKey(op, params) == IF op = "put" THEN params.Item ELSE params.Key

\* A well-formed put, update or delete whose ConditionExpression is false
\* against the item stored at its key (or against no item).
ConditionIsFalse(op, params) ==
    /\ op \in {"put", "update", "delete"}
    /\ ~params.unsupported
    /\ assertPrimaryKey(RequestKey(op, params))
    /\ params.ConditionExpression.present
    /\ evaluateConditionExpression(
           params.ConditionExpression.expression,
           cloneItemByKey(Table, RequestKey(op, params)["PK"].s,
                          RequestKey(op, params)["SK"].s)) = "false"

\* C6: a put, update or delete whose ConditionExpression is false against
\* the stored item (or against no item) fails with ConditionalCheckFailed
\* and leaves the table unchanged.
C6_FalseConditionFails ==
    [][ConditionIsFalse(result'.op, result'.params)
          => /\ result'.err = "ConditionalCheckFailedException"
             /\ itemStore' = itemStore
             /\ indexes' = indexes]_vars

\* C6 happens: a delete of a stored item failed its condition.
C6_Witness ==
    /\ result.op = "delete"
    /\ result.err = "ConditionalCheckFailedException"
    /\ encodeItemKey(PK_P, SK_A) \in DOMAIN itemStore

\* The attributes a parsed SET list assigns.
SetAttributes(expr) == {expr.set[i].attr : i \in 1..Len(expr.set)}

\* The attributes a parsed REMOVE list names.
RemovedAttributes(expr) == {expr.remove[i] : i \in 1..Len(expr.remove)}

\* updated is base with the SET clauses of expr assigned (each right-hand
\* side read from base) and its REMOVE attributes gone, and nothing else
\* changed.
UpdateApplied(base, updated, expr) ==
    /\ \A i \in 1..Len(expr.set) :
          /\ expr.set[i].attr \in DOMAIN updated
          /\ updated[expr.set[i].attr] =
                 IF expr.set[i].rhs.kind = "value" THEN expr.set[i].rhs.val
                 ELSE base[expr.set[i].rhs.attr]
    /\ \A a \in RemovedAttributes(expr) : a \notin DOMAIN updated
    /\ \A a \in DOMAIN base \ (SetAttributes(expr) \cup RemovedAttributes(expr)) :
          a \in DOMAIN updated /\ updated[a] = base[a]
    /\ DOMAIN updated \subseteq DOMAIN base \cup SetAttributes(expr)

\* The encoded item key a transaction entry targets.
EntryItemKey(entry) == encodeItemKey(EntryKey(entry)["PK"].s, EntryKey(entry)["SK"].s)

\* The effect of one transaction entry is present in the item store after.
EntryCommitted(entry, before, after) ==
    IF entry.kind = "Put"
    THEN /\ EntryItemKey(entry) \in DOMAIN after
         /\ after[EntryItemKey(entry)] = cloneItem(entry.Item)
    ELSE IF entry.kind = "Update"
    THEN /\ EntryItemKey(entry) \in DOMAIN after
         /\ UpdateApplied(IF EntryItemKey(entry) \in DOMAIN before
                          THEN before[EntryItemKey(entry)]
                          ELSE entry.Key,
                          after[EntryItemKey(entry)], entry.UpdateExpression)
    ELSE IF entry.kind = "Delete"
    THEN EntryItemKey(entry) \notin DOMAIN after
    ELSE Same(before, after, EntryItemKey(entry))

WellFormedTransaction(params) ==
    /\ ~params.unsupported
    /\ Len(params.TransactItems) \in 1..TRANSACT_WRITE_MAX
    /\ \A i \in 1..Len(params.TransactItems) :
          /\ params.TransactItems[i].kind \in {"Put", "Update", "Delete", "ConditionCheck"}
          /\ assertPrimaryKey(EntryKey(params.TransactItems[i]))

\* Two entries of the request target the same (PK, SK).
HasDuplicateTarget(items) ==
    \E i, j \in 1..Len(items) :
        /\ i < j
        /\ EntryKey(items[i])["PK"] = EntryKey(items[j])["PK"]
        /\ EntryKey(items[i])["SK"] = EntryKey(items[j])["SK"]

\* C8: a transactWrite request with two entries for the same (PK, SK) fails
\* with the validation error "Transaction request cannot include multiple
\* operations on one item" and leaves the stored items as they were.
C8_DuplicateTargetRejected ==
    [][(/\ result'.op = "transactWrite"
        /\ WellFormedTransaction(result'.params)
        /\ HasDuplicateTarget(result'.params.TransactItems))
          => /\ result'.err = "ValidationException"
             /\ result'.msg = "MultipleOperations"
             /\ itemStore' = itemStore]_vars

-----------------------------------------------------------------------------
(* Properties of the tracked client *)

\* The item a (PK, SK) pair held when tracking started, or Null.
StartItem(key) ==
    IF encodeItemKey(key[1], key[2]) \in DOMAIN startStore
    THEN startStore[encodeItemKey(key[1], key[2])]
    ELSE Null

\* C3: rollback returns the stored items to exactly what they were when
\* startTracking was called.
C3_RollbackRestoresStart ==
    [][(isTracking /\ result'.op = "rollback") => itemStore' = startStore]_vars

\* C4: while tracking, the journal holds for every key written through the
\* tracked client an entry made at the first such write and never replaced:
\* its pre-image is the item the key held when tracking started, which is
\* what rollback gives back after any number of writes to the key.
C4_FirstPreImageKept ==
    isTracking =>
        \A key \in written :
            \E i \in 1..Len(trackedKeys) :
                /\ trackedKeys[i].pk = key[1]
                /\ trackedKeys[i].sk = key[2]
                /\ trackedKeys[i].original = StartItem(key)

\* C10: rollback does not change any key that was not written through the
\* tracked client since the last startTracking.
C10_RollbackFrame ==
    [][(result'.op = "rollback")
          => \A itemKey \in (DOMAIN itemStore \cup DOMAIN itemStore')
                              \ {encodeItemKey(key[1], key[2]) : key \in written} :
                 Same(itemStore, itemStore', itemKey)]_vars

\* C10 happens: a rollback changed the table while an item written outside
\* the tracking window stayed in place.
C10_Witness ==
    /\ result.op = "rollback"
    /\ result.dirty
    /\ \E itemKey \in DOMAIN itemStore :
           itemKey \notin {encodeItemKey(key[1], key[2]) : key \in written}

\* C11: startTracking discards the journal left from before, so each
\* startTracking/rollback cycle restores every key to what it held at that
\* cycle's own startTracking, whatever earlier cycles recorded or restored.
C11_CyclesIndependent ==
    [][/\ (result'.op = "startTracking") => trackedKeys' = <<>>
       /\ (isTracking /\ result'.op = "rollback")
             => \A itemKey \in DOMAIN startStore \cup DOMAIN itemStore' :
                    Same(startStore, itemStore', itemKey)]_vars

\* The item update works on: the stored item, or the bare key.
UpdateBase(store, key) ==
    IF encodeItemKey(key["PK"].s, key["SK"].s) \in DOMAIN store
    THEN store[encodeItemKey(key["PK"].s, key["SK"].s)]
    ELSE [PK |-> key["PK"], SK |-> key["SK"]]

\* Every SET right-hand side of the expression resolves against the item.
ExpressionResolves(expr, base) ==
    \A i \in 1..Len(expr.set) :
        resolveUpdateSetValueToken(expr.set[i].rhs, base) \notin {MISSING, NOT_NUMBERS}

\* The expression removes PK or SK, or sets one of them to something other
\* than its current value.
TouchesKey(expr, base) ==
    \/ \E i \in 1..Len(expr.set) :
          /\ expr.set[i].attr \in {"PK", "SK"}
          /\ resolveUpdateSetValueToken(expr.set[i].rhs, base) # base[expr.set[i].attr]
    \/ \E i \in 1..Len(expr.remove) : expr.remove[i] \in {"PK", "SK"}

\* A stand-alone update that gets as far as applying its expression:
\* supported parameters, a string key, a condition that holds, operands that
\* resolve.
UpdateIsApplied(params, store) ==
    /\ ~params.unsupported
    /\ assertPrimaryKey(params.Key)
    /\ assertCondition(params.ConditionExpression,
                       IF encodeItemKey(params.Key["PK"].s, params.Key["SK"].s) \in DOMAIN store
                       THEN store[encodeItemKey(params.Key["PK"].s, params.Key["SK"].s)]
                       ELSE Null) = "None"
    /\ ExpressionResolves(params.UpdateExpression, UpdateBase(store, params.Key))

\* The condition of a transaction entry holds against the item stored at its
\* key (entries without a condition pass).
EntryConditionHolds(entry, store) ==
    assertCondition(entry.ConditionExpression,
                    IF EntryItemKey(entry) \in DOMAIN store
                    THEN store[EntryItemKey(entry)] ELSE Null) = "None"

\* A transaction whose entries all get as far as being applied: well formed,
\* one entry per key, every condition holding, every operand resolving.
TransactionIsApplied(params, store) ==
    /\ WellFormedTransaction(params)
    /\ ~HasDuplicateTarget(params.TransactItems)
    /\ \A i \in 1..Len(params.TransactItems) :
          /\ EntryConditionHolds(params.TransactItems[i], store)
          /\ params.TransactItems[i].kind = "Update"
                => ExpressionResolves(params.TransactItems[i].UpdateExpression,
                                      UpdateBase(store, params.TransactItems[i].Key))

\* Some Update entry of the transaction touches a key attribute.
SomeEntryTouchesKey(items, store) ==
    \E i \in 1..Len(items) :
        /\ items[i].kind = "Update"
        /\ TouchesKey(items[i].UpdateExpression, UpdateBase(store, items[i].Key))

\* The item stored under the key has the key's PK and SK.
StoredUnderKey(store, key) ==
    /\ encodeItemKey(key["PK"].s, key["SK"].s) \in DOMAIN store
    /\ store[encodeItemKey(key["PK"].s, key["SK"].s)]["PK"] = key["PK"]
    /\ store[encodeItemKey(key["PK"].s, key["SK"].s)]["SK"] = key["SK"]

-----------------------------------------------------------------------------
(* Reading: Limit, pagination, order, range conditions.                     *)

IsRead(op) == result.op = op /\ result.err = "None"

\* The request without Limit and without filter: its Items are the
\* candidates of the request, in the order they are scanned.
Unlimited(params) == [params EXCEPT !.Limit = NoLimit, !.FilterExpression = NoFilter]
Candidates(op, params) ==
    IF op = "query" THEN query(Table, Unlimited(params)).out.Items
    ELSE scan(Table, Unlimited(params)).out.Items

\* The attributes of a LastEvaluatedKey.
KeyAttributes(op, params) ==
    IF op = "query" /\ params.IndexName # ""
    THEN {"PK", "SK", getDescriptor(params.IndexName).hashAttribute,
          getDescriptor(params.IndexName).rangeAttribute}
    ELSE {"PK", "SK"}

LimitHonoured(n, out, candidates, attributes) ==
    /\ out.ScannedCount <= n
    /\ out.Count <= out.ScannedCount
    /\ out.Count = Len(out.Items)
    /\ \A i \in 1..Len(out.Items) :
           \E j \in 1..out.ScannedCount : candidates[j] = out.Items[i]
    /\ IF Len(candidates) >= n
       THEN /\ out.ScannedCount = n
            /\ out.LastEvaluatedKey = [a \in attributes |-> candidates[n][a]]
       ELSE /\ out.ScannedCount = Len(candidates)
            /\ out.LastEvaluatedKey = Null

\* C13: a query or scan with Limit n scans at most n candidates and counts
\* no more items than it scanned; with n or more candidates it stops at the
\* n-th and LastEvaluatedKey is that candidate's key (PK and SK, and the
\* index's hash and range attributes for a GSI query); with fewer than n
\* candidates there is no LastEvaluatedKey.
C13_LimitStopsScan ==
    \A op \in {"query", "scan"} :
        (IsRead(op) /\ result.params.Limit.present)
            => LimitHonoured(result.params.Limit.n, result.out,
                             Candidates(op, result.params),
                             KeyAttributes(op, result.params))

C13_Witness ==
    /\ IsRead("query")
    /\ result.params.Limit.present
    /\ result.params.IndexName = "GSI2"
    /\ result.out.ScannedCount = result.params.Limit.n
    /\ result.out.LastEvaluatedKey # Null
    /\ Len(Candidates("query", result.params)) > result.params.Limit.n

NoDuplicates(items) ==
    \A i, j \in 1..Len(items) : items[i] = items[j] => i = j

\* Reading page by page: each page starts after the LastEvaluatedKey of the
\* page before it, until a page has none or the pages allowed are used up.
RECURSIVE Paginate(_, _, _, _)
Paginate(op, params, startKey, pagesLeft) ==
    LET after(page) ==
            IF page.err # "None" THEN [finished |-> FALSE, Items |-> <<>>]
            ELSE IF page.out.LastEvaluatedKey = Null
            THEN [finished |-> TRUE, Items |-> page.out.Items]
            ELSE IF pagesLeft = 1 THEN [finished |-> FALSE, Items |-> page.out.Items]
            ELSE LET rest(later) ==
                         [finished |-> later.finished,
                          Items |-> page.out.Items \o later.Items]
                 IN rest(Paginate(op, params, StartKey(page.out.LastEvaluatedKey),
                                  pagesLeft - 1))
    IN after(IF op = "query"
             THEN query(Table, [params EXCEPT !.ExclusiveStartKey = startKey])
             ELSE scan(Table, [params EXCEPT !.ExclusiveStartKey = startKey]))

\* The same request without Limit.
WholeItems(op, params) ==
    IF op = "query" THEN query(Table, [params EXCEPT !.Limit = NoLimit]).out.Items
    ELSE scan(Table, [params EXCEPT !.Limit = NoLimit]).out.Items

PagesAreWhole(pages, whole) ==
    /\ pages.finished
    /\ pages.Items = whole
    /\ NoDuplicates(pages.Items)

\* C14: on an unmodified table, in either direction, the pages of a query
\* with Limit n, each started at the LastEvaluatedKey of the one before,
\* end with a page without LastEvaluatedKey (after no more pages than the
\* table has items, and one), and their Items one after the other are the
\* Items of the same query without Limit, none twice and none left out.
C14_QueryPagesAreWhole ==
    (IsRead("query") /\ result.params.Limit.present)
        => PagesAreWhole(Paginate("query", result.params, result.params.ExclusiveStartKey,
                                  Cardinality(DOMAIN itemStore) + 1),
                         WholeItems("query", result.params))

C14_Witness ==
    /\ IsRead("query")
    /\ result.params.Limit.present
    /\ ~result.params.ScanIndexForward
    /\ result.params.IndexName = "GSI2"
    /\ result.out.LastEvaluatedKey # Null
    /\ Len(WholeItems("query", result.params)) > 2 * result.params.Limit.n

\* (PK, SK) of a before (PK, SK) of b.
KeyBefore(a, b) ==
    \/ StrLt(a["PK"].s, b["PK"].s)
    \/ a["PK"].s = b["PK"].s /\ StrLt(a["SK"].s, b["SK"].s)

Ascending(items) ==
    \A i, j \in 1..Len(items) : i < j => KeyBefore(items[i], items[j])

StoredItems == {itemStore[k] : k \in DOMAIN itemStore}

\* C15: a scan without Limit, start key and filter returns every item of
\* the table once, in ascending (PK, SK) order; and the pages of a scan
\* with Limit, each started at the LastEvaluatedKey of the one before, end
\* and hold exactly the items of the same scan without Limit, each once.
C15_ScanOrderedAndWhole ==
    /\ (IsRead("scan") /\ ~result.params.Limit.present)
           => /\ Ascending(result.out.Items)
              /\ (~result.params.ExclusiveStartKey.present
                  /\ ~result.params.FilterExpression.present)
                     => /\ {result.out.Items[i] : i \in 1..Len(result.out.Items)}
                            = StoredItems
                        /\ Len(result.out.Items) = Cardinality(StoredItems)
    /\ (IsRead("scan") /\ result.params.Limit.present)
           => PagesAreWhole(Paginate("scan", result.params, result.params.ExclusiveStartKey,
                                     Cardinality(DOMAIN itemStore) + 1),
                            WholeItems("scan", result.params))

C15_Witness ==
    /\ IsRead("scan")
    /\ result.params.Limit.present
    /\ ~result.params.ExclusiveStartKey.present
    /\ result.out.LastEvaluatedKey # Null
    /\ Cardinality({i["PK"] : i \in StoredItems}) = 2
    /\ Len(WholeItems("scan", result.params)) > 2 * result.params.Limit.n

\* A successful query that reads its whole range: no Limit, no start key,
\* no filter.
IsWholeQuery ==
    /\ IsRead("query")
    /\ ~result.params.Limit.present
    /\ ~result.params.ExclusiveStartKey.present
    /\ ~result.params.FilterExpression.present

QueriedIndex == resolveIndexName(result.params.IndexName)

\* The stored items of the queried partition whose range attribute
\* satisfies the range condition of the request.
MatchingItems(descriptor, condition) ==
    {item \in StoredItems :
        /\ IsString(item, descriptor.hashAttribute)
        /\ IsString(item, descriptor.rangeAttribute)
        /\ item[descriptor.hashAttribute] = condition.hashValue
        /\ condition.range.type # "none"
              => matchesRangeCondition(item[descriptor.rangeAttribute], condition.range)}

EntryKeyOf(descriptor, item) ==
    encodeIndexEntryKey(item[descriptor.rangeAttribute].s,
                        encodeItemKey(item["PK"].s, item["SK"].s))

InEntryKeyOrder(items, descriptor, forward) ==
    \A i, j \in 1..Len(items) :
        i < j => IF forward
                 THEN StrLt(EntryKeyOf(descriptor, items[i]), EntryKeyOf(descriptor, items[j]))
                 ELSE StrLt(EntryKeyOf(descriptor, items[j]), EntryKeyOf(descriptor, items[i]))

ReturnsExactly(items, matching) ==
    /\ {items[i] : i \in 1..Len(items)} = matching
    /\ Len(items) = Cardinality(matching)

\* C16: a query that reads its whole range returns exactly the items of the
\* partition whose range attribute satisfies the range condition (=, <, <=,
\* >, >=, BETWEEN, begins_with, or none), each once, in ascending order of
\* their entry keys when it reads forward.
C16_RangeConditionExact ==
    IsWholeQuery
        => /\ ReturnsExactly(result.out.Items,
                             MatchingItems(getDescriptor(QueriedIndex),
                                           result.params.KeyCondition))
           /\ result.params.ScanIndexForward
                 => InEntryKeyOrder(result.out.Items, getDescriptor(QueriedIndex), TRUE)

Reverse(seq) == [i \in 1..Len(seq) |-> seq[Len(seq) + 1 - i]]

\* The same query read in the other direction.
OtherDirection(params) == [params EXCEPT !.ScanIndexForward = ~@]

\* C17: without filter and Limit (and read from the start), the Items of a
\* query are the Items of the query in the other direction on the same
\* index, hash key, range condition and table, in reverse order.
C17_DescendingIsReverse ==
    IsWholeQuery
        => result.out.Items = Reverse(query(Table, OtherDirection(result.params)).out.Items)

C17_Witness ==
    /\ IsWholeQuery
    /\ ~result.params.ScanIndexForward
    /\ result.params.KeyCondition.range.type = "between"
    /\ Len(result.out.Items) >= 3

RECURSIVE putAll(_, _)
putAll(table, items) ==
    IF Len(items) = 0 THEN table ELSE putAll(TablePut(table, Head(items)), Tail(items))

\* A table that was written the stored items in ascending (PK, SK) order.
WrittenInKeyOrder == putAll(EmptyTable, sortItemsByPKSK(StoredItems))

\* The query for all of a partition, read forward.
PartitionQuery(descriptor, hashKey) ==
    QueryRequest(IF descriptor.name = PRIMARY_INDEX_NAME THEN "" ELSE descriptor.name,
                 KeyCondition(descriptor.hashAttribute, S(hashKey),
                              descriptor.rangeAttribute, NoRange),
                 TRUE, NoLimit, NoStartKey, NoFilter)

SameReads(table, other) ==
    /\ snapshot(table) = snapshot(other)
    /\ \A i \in 1..Len(INDEX_DESCRIPTORS) :
           \A hashKey \in DOMAIN table.indexes[INDEX_DESCRIPTORS[i].name]
                              \cup DOMAIN other.indexes[INDEX_DESCRIPTORS[i].name] :
               query(table, PartitionQuery(INDEX_DESCRIPTORS[i], hashKey)).out.Items
                   = query(other, PartitionQuery(INDEX_DESCRIPTORS[i], hashKey)).out.Items

\* C18: whatever the order of the writes that made the table, its snapshot
\* and the sequence a query returns for each partition of each index are
\* those of a table that was written the same items in ascending key order.
C18_WriteOrderIrrelevant == SameReads(Table, WrittenInKeyOrder)

-----------------------------------------------------------------------------
(* Reading back what was written.                                           *)

\* Deep equality of items; a property that holds undefined counts as absent.
Defined(item) == [a \in {b \in DOMAIN item : item[b].t # "U"} |-> item[a]]
DeepEqual(a, b) == a # Null /\ b # Null /\ Defined(a) = Defined(b)

TableAfter == [itemStore |-> itemStore', indexes |-> indexes']

ItemAt(table, key) == get(table, [Key |-> key, unsupported |-> FALSE]).out

\* The keys a request names as its target.
RequestKeys(res) ==
    IF res.op = "put" THEN {[PK |-> res.params.Item["PK"], SK |-> res.params.Item["SK"]]}
    ELSE IF res.op \in {"update", "delete"} THEN {res.params.Key}
    ELSE {}

\* C19: after a successful put of x, get of x's key returns an item
\* deep-equal to x, and a request that does not write that key leaves what
\* get returns for it as it was.
C19_GetReturnsPut ==
    [][/\ (result'.op = "put" /\ result'.err = "None")
             => DeepEqual(ItemAt(TableAfter, [PK |-> result'.params.Item["PK"],
                                             SK |-> result'.params.Item["SK"]]),
                          result'.params.Item)
       /\ \A key \in QueryKeys :
              key \notin RequestKeys(result') => ItemAt(TableAfter, key) = ItemAt(Table, key)
       /\ (result'.op = "get" /\ result'.err = "None")
             => result'.out = ItemAt(Table, result'.params.Key)]_vars

HasKey(item, key) == item["PK"] = key["PK"] /\ item["SK"] = key["SK"]

NoneHasKey(items, key) == \A i \in 1..Len(items) : ~HasKey(items[i], key)

\* No read of the table returns an item with the key: not get, not the
\* query for all of any partition of any index in either direction, not
\* the scan of the whole table.
Gone(table, key) ==
    /\ ItemAt(table, key) = Null
    /\ \A i \in 1..Len(INDEX_DESCRIPTORS) :
           \A hashKey \in DOMAIN table.indexes[INDEX_DESCRIPTORS[i].name] :
               /\ NoneHasKey(query(table, PartitionQuery(INDEX_DESCRIPTORS[i],
                                                         hashKey)).out.Items, key)
               /\ NoneHasKey(query(table,
                                   OtherDirection(PartitionQuery(INDEX_DESCRIPTORS[i],
                                                                 hashKey))).out.Items, key)
    /\ NoneHasKey(scan(table, ScanRequest(NoLimit, NoStartKey, NoFilter)).out.Items, key)

\* The condition of a delete is absent or holds for what the key holds.
DeleteConditionHolds(params) ==
    assertCondition(params.ConditionExpression,
                    cloneItemByKey(Table, params.Key["PK"].s, params.Key["SK"].s)) = "None"

\* C20: a delete of a string key whose condition, if it has one, holds
\* succeeds, also when the key holds no item; after a successful delete no
\* get, query or scan returns an item of that key; and a delete of a key
\* that holds no item leaves the table as it was.
C20_DeleteRemoves ==
    [][(result'.op = "delete" /\ ~result'.params.unsupported
        /\ assertPrimaryKey(result'.params.Key))
           => /\ DeleteConditionHolds(result'.params) => result'.err = "None"
              /\ result'.err = "None" => Gone(TableAfter, result'.params.Key)
              /\ ItemAt(Table, result'.params.Key) = Null => TableAfter = Table]_vars

\* A delete took away one of several items.
C20_Witness ==
    /\ result.op = "delete"
    /\ result.err = "None"
    /\ result.params.Key = KeyQ1
    /\ ItemAt(Table, KeyQ1) = Null
    /\ Cardinality(DOMAIN itemStore) >= 3

-----------------------------------------------------------------------------
(* Updating.                                                                *)

\* A successful stand-alone update.
UpdateSucceeds == result'.op = "update" /\ result'.err = "None"

\* The expression is `SET a = :v` for one attribute a and one supplied value.
IsSetOfValue(expr) ==
    /\ Len(expr.set) = 1
    /\ Len(expr.remove) = 0
    /\ expr.set[1].rhs.kind = "value"

\* Every encoded key but one holds in the second store what it held in the
\* first.
OthersUnchanged(before, after, itemKey) ==
    \A other \in (DOMAIN before \cup DOMAIN after) \ {itemKey} : Same(before, after, other)

\* The item is the base with one attribute set to the value, and nothing
\* else changed.
OneAttributeSet(base, item, attr, value) ==
    /\ item # Null
    /\ attr \in DOMAIN item
    /\ item[attr] = value
    /\ DOMAIN item = DOMAIN base \cup {attr}
    /\ \A other \in DOMAIN base \ {attr} : item[other] = base[other]

\* C21: after a successful update of key k with `SET a = :v`, get of k
\* returns an item whose a is the supplied value and whose other attributes
\* are those the item had (PK and SK of the key when k held no item), and
\* every other item of the table is as it was.
C21_SetStoresValue ==
    [][(UpdateSucceeds /\ IsSetOfValue(result'.params.UpdateExpression))
          => /\ OneAttributeSet(UpdateBase(itemStore, result'.params.Key),
                                ItemAt(TableAfter, result'.params.Key),
                                result'.params.UpdateExpression.set[1].attr,
                                result'.params.UpdateExpression.set[1].rhs.val)
             /\ OthersUnchanged(itemStore, itemStore',
                                encodeItemKey(result'.params.Key["PK"].s,
                                              result'.params.Key["SK"].s))]_vars

\* The item an expression makes of a key that holds no item: PK and SK of
\* the key and each SET attribute with the value its right-hand side
\* resolves to, less the REMOVE attributes.
MadeOfKey(item, key, expr) ==
    /\ item # Null
    /\ DOMAIN item = ({"PK", "SK"} \cup SetAttributes(expr)) \ RemovedAttributes(expr)
    /\ item["PK"] = key["PK"]
    /\ item["SK"] = key["SK"]
    /\ \A i \in 1..Len(expr.set) :
           expr.set[i].attr \notin RemovedAttributes(expr)
               => item[expr.set[i].attr]
                      = resolveUpdateSetValueToken(expr.set[i].rhs,
                                                   [PK |-> key["PK"], SK |-> key["SK"]])

\* An update of a key that holds no item, with a condition that holds (if
\* it has one), operands that resolve and no change of PK or SK asked for.
IsUpsert(params) ==
    /\ UpdateIsApplied(params, itemStore)
    /\ returnValuesOf(params) \in {"NONE", "ALL_NEW"}
    /\ ItemAt(Table, params.Key) = Null
    /\ ~TouchesKey(params.UpdateExpression, UpdateBase(itemStore, params.Key))

\* C22: an update of a key that holds no item, whose condition (if any)
\* holds, does not fail, and afterwards the key holds an item made of the
\* key's PK and SK and the attributes the expression sets, with the values
\* it sets them to.
C22_UpdateCreatesItem ==
    [][(result'.op = "update" /\ IsUpsert(result'.params))
          => /\ result'.err = "None"
             /\ MadeOfKey(ItemAt(TableAfter, result'.params.Key), result'.params.Key,
                          result'.params.UpdateExpression)]_vars

\* The same request without Limit.
WithoutLimit(op, params) ==
    IF op = "query" THEN query(Table, [params EXCEPT !.Limit = NoLimit])
    ELSE scan(Table, [params EXCEPT !.Limit = NoLimit])

\* Limit is 0, or it is not a whole number.
LimitIsZeroOrFractional(limit) ==
    limit.present /\ (limit.half \/ limit.n = 0)

\* C23: a query or scan whose Limit is 0 or is not a whole number (1.5,
\* say) fails with a validation error; stated of the requests that succeed
\* when Limit is left out, so that no other error comes first.
C23_BadLimitRejected ==
    \A op \in {"query", "scan"} :
        (/\ result.op = op
         /\ LimitIsZeroOrFractional(result.params.Limit)
         /\ WithoutLimit(op, result.params).err = "None")
            => result.err = "ValidationException"

\* TransactItems is empty or has more than TRANSACT_WRITE_MAX entries.
BadTransactSize(params) ==
    Len(params.TransactItems) = 0 \/ Len(params.TransactItems) > TRANSACT_WRITE_MAX

\* C24: a transactWrite whose TransactItems is empty or has more than 100
\* entries fails with a validation error and leaves item store and indexes
\* as they were.
C24_TransactSizeRejected ==
    [][(/\ result'.op = "transactWrite"
        /\ ~result'.params.unsupported
        /\ BadTransactSize(result'.params))
          => /\ result'.err = "ValidationException"
             /\ TableAfter = Table]_vars

\* The expression is the one clause `path BETWEEN lower AND upper`, lower
\* and upper numbers.
IsBetweenExpression(expression) ==
    /\ Len(expression) = 5
    /\ expression[1].k = "path"
    /\ expression[3].k = "value" /\ expression[3].v.t = "N"
    /\ expression[5].k = "value" /\ expression[5].v.t = "N"
    /\ expression = BetweenClause(expression[1].a, expression[3], expression[5])

\* The item has a number at the path, and lower <= number <= upper.
InRange(item, expression) ==
    /\ item # Null
    /\ expression[1].a \in DOMAIN item
    /\ item[expression[1].a].t = "N"
    /\ expression[3].v.n <= item[expression[1].a].n
    /\ item[expression[1].a].n <= expression[5].v.n

RECURSIVE InRangeItems(_, _)
InRangeItems(items, expression) ==
    IF Len(items) = 0 THEN <<>>
    ELSE (IF InRange(Head(items), expression) THEN <<Head(items)>> ELSE <<>>)
         \o InRangeItems(Tail(items), expression)

\* C25: the clause `path BETWEEN lower AND upper` is accepted and is true
\* exactly when the path holds a value with lower <= value <= upper: a
\* delete with it as its condition succeeds when the stored item is in
\* range and fails with ConditionalCheckFailed otherwise, and a scan with
\* it as its filter returns exactly the items in range; neither raises
\* another error.
C25_BetweenAccepted ==
    [][/\ (/\ result'.op = "delete"
           /\ result'.params.ConditionExpression.present
           /\ IsBetweenExpression(result'.params.ConditionExpression.expression))
             => result'.err =
                    IF InRange(ItemAt(Table, result'.params.Key),
                               result'.params.ConditionExpression.expression)
                    THEN "None" ELSE "ConditionalCheckFailedException"
       /\ (/\ result'.op = "scan"
           /\ result'.params.FilterExpression.present
           /\ IsBetweenExpression(result'.params.FilterExpression.expression))
             => /\ result'.err = "None"
                /\ result'.out.Items =
                       InRangeItems(scan(Table, Unlimited(result'.params)).out.Items,
                                    result'.params.FilterExpression.expression)]_vars

\* The function names evaluateSingleClause knows.
KnownFunctions ==
    {"attribute_exists", "attribute_not_exists", "begins_with", "contains", "attribute_type"}

\* The expression has a clause that calls a function of unknown name.
ContainsUnknown(expression) ==
    \E i \in 1..Len(expression) :
        expression[i].k = "fn" /\ expression[i].a \notin KnownFunctions

\* C26: a condition or filter with a clause of unknown syntax fails with a
\* validation error wherever the clause stands in the AND/OR expression and
\* whatever the item: every delete with such a condition does, and every
\* scan with such a filter of a table that holds an item.
C26_UnknownClauseRejected ==
    [][/\ (/\ result'.op = "delete"
           /\ result'.params.ConditionExpression.present
           /\ ContainsUnknown(result'.params.ConditionExpression.expression))
             => result'.err = "ValidationException"
       /\ (/\ result'.op = "scan"
           /\ result'.params.FilterExpression.present
           /\ ContainsUnknown(result'.params.FilterExpression.expression)
           /\ itemStore # <<>>)
             => result'.err = "ValidationException"]_vars

\* The expression is one clause of a known kind: a call of a known
\* function, a comparison, or a BETWEEN.
IsOneClause(expression) ==
    /\ Len(expression) > 0
    /\ ~ContainsUnknown(expression)
    /\ \/ \A i \in 1..Len(expression) : expression[i].k \notin {"and", "or"}
       \/ IsBetweenExpression(expression)

ReferencedPaths(expression) ==
    {expression[i].a : i \in {j \in 1..Len(expression) : expression[j].k = "path"}}

\* There is no item, or the item lacks a path the expression refers to.
SomePathMissing(expression, item) ==
    /\ ReferencedPaths(expression) # {}
    /\ \/ item = Null
       \/ \E path \in ReferencedPaths(expression) : path \notin DOMAIN item

IsNotExists(expression) ==
    Len(expression) > 0 /\ expression[1] = FnName("attribute_not_exists")

\* attribute_exists or attribute_not_exists of a path that holds null.
AsksForNull(expression, item) ==
    /\ item # Null
    /\ \E path \in DOMAIN item :
           /\ item[path] = NULL
           /\ expression \in {Call1("attribute_exists", path),
                              Call1("attribute_not_exists", path)}

\* What a condition of one clause does to a write.
Passes(holds) == IF holds THEN "None" ELSE "ConditionalCheckFailedException"

AllMiss(expression, items) ==
    \A i \in 1..Len(items) : SomePathMissing(expression, items[i])

\* C27: a clause that refers to a missing path (there being no item
\* included) is false, be it a comparison, begins_with, contains,
\* attribute_type, BETWEEN or attribute_exists, and true when it is
\* attribute_not_exists; a path that holds null is present.  Stated of the
\* delete with the clause as its condition, and of the scan with the
\* clause as its filter when every stored item lacks the path.
C27_MissingPathIsFalse ==
    [][/\ (/\ result'.op = "delete"
           /\ result'.params.ConditionExpression.present
           /\ IsOneClause(result'.params.ConditionExpression.expression)
           /\ SomePathMissing(result'.params.ConditionExpression.expression,
                              ItemAt(Table, result'.params.Key)))
             => result'.err =
                    Passes(IsNotExists(result'.params.ConditionExpression.expression))
       /\ (/\ result'.op = "delete"
           /\ result'.params.ConditionExpression.present
           /\ AsksForNull(result'.params.ConditionExpression.expression,
                          ItemAt(Table, result'.params.Key)))
             => result'.err =
                    Passes(~IsNotExists(result'.params.ConditionExpression.expression))
       /\ (/\ result'.op = "scan"
           /\ result'.params.FilterExpression.present
           /\ IsOneClause(result'.params.FilterExpression.expression)
           /\ AllMiss(result'.params.FilterExpression.expression,
                      scan(Table, Unlimited(result'.params)).out.Items))
             => /\ result'.err = "None"
                /\ result'.out.Items =
                       IF IsNotExists(result'.params.FilterExpression.expression)
                       THEN scan(Table, Unlimited(result'.params)).out.Items
                       ELSE <<>>]_vars

\* The expression is SET c = if_not_exists(c, :z) + :inc, :z and :inc numbers.
IsIncrement(expr) ==
    /\ Len(expr.set) = 1
    /\ expr.set[1].rhs.kind = "plus"
    /\ expr.set[1].rhs.left.kind = "if_not_exists"
    /\ expr.set[1].rhs.left.fallback.kind = "value"
    /\ expr.set[1].rhs.left.fallback.val.t = "N"
    /\ expr.set[1].rhs.right.kind = "value"
    /\ expr.set[1].rhs.right.val.t = "N"
    /\ expr = ExprIncrement(expr.set[1].rhs.left.fallback.val.n, expr.set[1].rhs.right.val.n)

ZeroOf(expr) == expr.set[1].rhs.left.fallback.val.n
IncOf(expr) == expr.set[1].rhs.right.val.n

HasCounter(item) == item # Null /\ "c" \in DOMAIN item

\* (current c if present else :z) + :inc
Incremented(item, expr) ==
    N((IF HasCounter(item) THEN item["c"].n ELSE ZeroOf(expr)) + IncOf(expr))

\* A run of increments by incs, each with ReturnValues ALL_NEW, from a
\* table where the counter of the key stands at sum (or is absent, sum
\* being :z): each returns and stores the sum so far.
RECURSIVE CountsUp(_, _, _, _, _)
CountsUp(table, key, z, incs, sum) ==
    IF Len(incs) = 0 THEN TRUE
    ELSE LET counted(done) ==
                 /\ done.err = "None"
                 /\ done.out["c"] = N(sum + Head(incs))
                 /\ ItemAt(done.table, key)["c"] = N(sum + Head(incs))
                 /\ CountsUp(done.table, key, z, Tail(incs), sum + Head(incs))
         IN counted(update(table, UpdateRequest(key, ExprIncrement(z, Head(incs)),
                                                NoCondition, "ALL_NEW")))

\* C28: an update SET c = if_not_exists(c, :z) + :inc of an item whose c is
\* absent or a number stores (c if present, else :z) + :inc, and returns
\* the item with that c when ReturnValues is ALL_NEW; and from an item
\* without c, every run of up to MaxUpdates such updates stores and returns
\* :z plus the sum of the increments so far.
C28_IncrementCounts ==
    [][(/\ result'.op = "update"
        /\ IsIncrement(result'.params.UpdateExpression)
        /\ UpdateIsApplied(result'.params, itemStore)
        /\ returnValuesOf(result'.params) \in {"NONE", "ALL_NEW"})
          => /\ result'.err = "None"
             /\ ItemAt(TableAfter, result'.params.Key)["c"]
                    = Incremented(ItemAt(Table, result'.params.Key),
                                  result'.params.UpdateExpression)
             /\ returnValuesOf(result'.params) = "ALL_NEW"
                    => result'.out["c"]
                           = Incremented(ItemAt(Table, result'.params.Key),
                                         result'.params.UpdateExpression)
             /\ ~HasCounter(ItemAt(Table, result'.params.Key))
                    => \A incs \in SeqsUpTo(1..MaxIncrement, MaxUpdates) :
                           CountsUp(Table, result'.params.Key,
                                    ZeroOf(result'.params.UpdateExpression), incs,
                                    ZeroOf(result'.params.UpdateExpression))]_vars

\* An increment with ReturnValues ALL_NEW has returned a counter that two
\* earlier increments had raised.
C28_Witness ==
    /\ result.op = "update"
    /\ result.err = "None"
    /\ IsIncrement(result.params.UpdateExpression)
    /\ returnValuesOf(result.params) = "ALL_NEW"
    /\ result.out["c"].n >= ZeroOf(result.params.UpdateExpression) + 3

SameKey(item, other) == item["PK"] = other["PK"] /\ item["SK"] = other["SK"]

\* C29: the encoded item key is injective: items of different (PK, SK) have
\* different encoded keys, whatever separators, digits and colons PK and SK
\* hold, so a put never replaces a stored item of another key.
C29_ItemKeyInjective ==
    [][(result'.op = "put" /\ result'.err = "None")
          => \A k \in DOMAIN itemStore :
                 ~SameKey(itemStore[k], result'.params.Item)
                     => /\ encodeItemKey(itemStore[k]["PK"].s, itemStore[k]["SK"].s)
                            # encodeItemKey(result'.params.Item["PK"].s,
                                            result'.params.Item["SK"].s)
                        /\ k \in DOMAIN itemStore'
                        /\ itemStore'[k] = itemStore[k]]_vars

\* The table holds the item of PK "\u0000" and empty SK and the item of
\* empty PK and SK "\u0000", one of them just put.
C29_Witness ==
    /\ result.op = "put"
    /\ result.err = "None"
    /\ {encodeItemKey(<<NUL>>, <<>>), encodeItemKey(<<>>, <<NUL>>)} \subseteq DOMAIN itemStore
    /\ Cardinality(DOMAIN itemStore) = 2

\* What reads of the table return: get of each key, the queries of the
\* partitions, the scan and the snapshot.
ReadsOf(table) ==
    [get |-> [k \in AliasKeys |-> get(table, [Key |-> k, unsupported |-> FALSE]).out],
     query |-> [params \in AliasQueryParams |-> query(table, params).out],
     scan |-> scan(table, WholeScan).out,
     snapshot |-> snapshot(table)]

\* C30: the store shares no item object with the caller: when the caller
\* changes an object it has handed to put, update, batchWrite or
\* transactWrite, or the items it was returned by get, query, scan, update
\* (ALL_NEW) or the snapshot, every read returns what it returned before.
C30_NoSharedObjects ==
    [][result'.op = "mutate" => ReadsOf(TableAfter) = ReadsOf(Table)]_vars

\* The caller has changed the two items a scan had returned, both of them
\* put from objects the caller still holds.
C30_Witness ==
    /\ result.op = "mutate"
    /\ result.params.after = "scan"
    /\ result.params.returned
    /\ Len(scan(Table, WholeScan).out.Items) = 2
-----------------------------------------------------------------------------
(* The treap, the tracker's journal, the markers of transactWrite, the      *)
(* snapshot and the order of an update's assignments.                        *)

\* The nodes of a tree, as <<key, priority, value>>.
RECURSIVE EntriesOf(_)
EntriesOf(node) ==
    IF node = Nil THEN {}
    ELSE EntriesOf(NLeft(node)) \cup {<<NKey(node), NPri(node), NVal(node)>>}
             \cup EntriesOf(NRight(node))

\* The orders a finite set can be listed in.
Orders(set) ==
    {order \in [1..Cardinality(set) -> set] :
        \A i, j \in 1..Cardinality(set) : i # j => order[i] # order[j]}

\* The tree that inserting the entries into an empty tree in this order makes.
RECURSIVE TreeOf(_, _)
TreeOf(order, n) ==
    IF n = 0 THEN Nil
    ELSE insertNode(TreeOf(order, n - 1), order[n][1], order[n][3], order[n][2])[1]

ShapeIsOf(root, entries) ==
    \A order \in Orders(entries) : TreeOf(order, Len(order)) = root

\* C31: the shape of the tree is that of its set of (entry key, priority)
\* entries alone: inserting the entries the tree holds into an empty tree,
\* in any order, makes the very tree that the inserts and removes so far
\* have made.
C31_ShapeIsCanonical ==
    ShapeIsOf(TheTreap.root, EntriesOf(TheTreap.root))

\* The entries of a set in ascending key order.
AscendingByKey(entries) ==
    CHOOSE order \in Orders(entries) :
        \A i, j \in 1..Len(order) : i < j => StrLt(order[i][1], order[j][1])

\* key lies within the bounds, each side with its inclusive flag.
WithinBounds(key, bounds) ==
    /\ bounds.lower.present =>
           \/ StrLt(bounds.lower.key, key)
           \/ bounds.lower.inclusive /\ key = bounds.lower.key
    /\ bounds.upper.present =>
           \/ StrLt(key, bounds.upper.key)
           \/ bounds.upper.inclusive /\ key = bounds.upper.key

\* What iterate is to yield from a tree of these entries.
EntriesWithin(entries, direction, bounds) ==
    LET pairs(order) == [i \in 1..Len(order) |-> <<order[i][1], order[i][3]>>]
        inside(order) == SelectSeq(order, LAMBDA e : WithinBounds(e[1], bounds))
        turned(order) == IF direction = "asc" THEN order ELSE Reverse(order)
    IN turned(pairs(inside(AscendingByKey(entries))))

\* C32: iterate yields the entries of the tree whose key lies within the
\* bounds, each once, in ascending key order for "asc" and in descending
\* key order for "desc".
C32_IterateYieldsRange ==
    result.op = "iterate" =>
        result.out = EntriesWithin(EntriesOf(TheTreap.root), result.params.direction,
                                   result.params.bounds)

\* A descending iteration over a tree of four entries, between an exclusive
\* lower bound and an inclusive upper bound that are both keys of the tree,
\* has yielded the entry at the upper bound alone.
C32_Witness ==
    /\ result.op = "iterate"
    /\ result.params.direction = "desc"
    /\ result.params.bounds = [lower |-> Bound(KEY_AB, FALSE), upper |-> Bound(KEY_B, TRUE)]
    /\ TheTreap.size = 4
    /\ result.out = <<<<KEY_B, KEY_B>>>>

TreapAfter == treapOf(indexes')

RECURSIVE NodeCount(_)
NodeCount(node) ==
    IF node = Nil THEN 0 ELSE NodeCount(NLeft(node)) + 1 + NodeCount(NRight(node))

KeysOf(node) == {e[1] : e \in EntriesOf(node)}

\* Every key of the left subtree is below the node's, every key of the right
\* subtree above it.
RECURSIVE IsSearchTree(_)
IsSearchTree(node) ==
    \/ node = Nil
    \/ /\ \A k \in KeysOf(NLeft(node)) : StrLt(k, NKey(node))
       /\ \A k \in KeysOf(NRight(node)) : StrLt(NKey(node), k)
       /\ IsSearchTree(NLeft(node))
       /\ IsSearchTree(NRight(node))

\* No child has a smaller priority than its parent.
RECURSIVE IsMinHeap(_)
IsMinHeap(node) ==
    \/ node = Nil
    \/ /\ NLeft(node) # Nil => NPri(NLeft(node)) >= NPri(node)
       /\ NRight(node) # Nil => NPri(NRight(node)) >= NPri(node)
       /\ IsMinHeap(NLeft(node))
       /\ IsMinHeap(NRight(node))

TreapIsWellFormed(tree) ==
    /\ IsSearchTree(tree.root)
    /\ IsMinHeap(tree.root)
    /\ Cardinality(KeysOf(tree.root)) = NodeCount(tree.root)
    /\ tree.size = NodeCount(tree.root)

RemovesAbsentKey == result'.op = "remove" /\ result'.params.key \notin KeysOf(TheTreap.root)

\* C34: after every insert, remove and clear the tree is a search tree on
\* the keys and a min-heap on the priorities, holds each key once, and its
\* size is the number of its nodes; a remove of a key the tree does not hold
\* returns false and leaves the tree as it was.
C34_TreapInvariants ==
    [][/\ TreapIsWellFormed(TreapAfter)
       /\ RemovesAbsentKey => result'.out = FALSE /\ TreapAfter = TheTreap]_vars

\* A remove has taken one of four entries away: the three left are a root
\* with a child on either side.
C34_Witness ==
    /\ result.op = "remove"
    /\ result.out = TRUE
    /\ TheTreap.size = 3
    /\ result.params.key = KEY_AB
    /\ \A k \in KeysOf(TheTreap.root) : k # KEY_AB
    /\ NLeft(TheTreap.root) # Nil
    /\ NRight(TheTreap.root) # Nil

\* The item key of the update just made.
ElementKey == encodeItemKey(result'.params.Key["PK"].s, result'.params.Key["SK"].s)

\* The update just made was SET l[N] = :v on a stored item whose l is a
\* list.
SetsElementOfList ==
    /\ result'.op = "update"
    /\ Len(result'.params.UpdateExpression.set) = 1
    /\ "index" \in DOMAIN result'.params.UpdateExpression.set[1]
    /\ result'.params.UpdateExpression.set[1].attr = "l"
    /\ ElementKey \in DOMAIN itemStore
    /\ "l" \in DOMAIN itemStore[ElementKey]
    /\ itemStore[ElementKey]["l"].t = "L"

\* The list with the element at the index (counted from 0) set: replaced, or
\* added at the end.
ListWith(elements, index, v) ==
    [i \in 1..(IF index + 1 > Len(elements) THEN index + 1 ELSE Len(elements)) |->
        IF i = index + 1 THEN v ELSE elements[i]]

ElementIsSet(before, after, index, v) ==
    /\ result'.err = "None"
    /\ ElementKey \in DOMAIN after
    /\ after[ElementKey] =
           [before[ElementKey] EXCEPT !["l"] = L(ListWith(@.s, index, v.n))]
    /\ \A k \in DOMAIN before \ {ElementKey} : k \in DOMAIN after /\ after[k] = before[k]
    /\ DOMAIN after = DOMAIN before

ElementIsRefused ==
    /\ result'.err = "ValidationException"
    /\ result'.msg = "InvalidPath"
    /\ TableAfter = Table

ItemAtStart(pk, sk) ==
    IF encodeItemKey(pk, sk) \in DOMAIN startStore THEN startStore[encodeItemKey(pk, sk)]
    ELSE Null

JournalHoldsItemsAtStart(tracked) ==
    \A i \in 1..Len(tracked) : tracked[i].original = ItemAtStart(tracked[i].pk, tracked[i].sk)

WrittenAreRestored ==
    \A key \in written :
        IF encodeItemKey(key[1], key[2]) \in DOMAIN startStore
        THEN /\ encodeItemKey(key[1], key[2]) \in DOMAIN itemStore'
             /\ itemStore'[encodeItemKey(key[1], key[2])]
                    = startStore[encodeItemKey(key[1], key[2])]
        ELSE encodeItemKey(key[1], key[2]) \notin DOMAIN itemStore'

\* C35: when tracked writes to one key are pending together, in whatever
\* order their steps run, the journal holds for the key the item the table
\* held before either write, and a rollback called when they have settled
\* leaves under every written key what the table held when tracking started.
C35_RacingWritesKeepOriginal ==
    [][/\ JournalHoldsItemsAtStart(trackedKeys')
       /\ (isTracking /\ result'.op = "rollback") => WrittenAreRestored]_vars

\* Two writes to one key were pending together and have both settled: the
\* item is no longer what it was, the journal holds what it was.
C35_Witness ==
    /\ isTracking
    /\ inflight = <<>>
    /\ result.op = "put"
    /\ result.err = "None"
    /\ result.raced
    /\ Len(trackedKeys) = 1
    /\ trackedKeys[1].original = [PK |-> S(PK_P), SK |-> S(SK_A), v |-> N(1)]
    /\ itemStore[encodeItemKey(PK_P, SK_A)] = [PK |-> S(PK_P), SK |-> S(SK_A), v |-> N(2)]

HasEntryOf(tracked, key) ==
    \E i \in 1..Len(tracked) : tracked[i].pk = key[1] /\ tracked[i].sk = key[2]

\* C36: while tracking, every primary key written through the proxy since
\* startTracking has a journal entry of its own: two different keys never
\* share one.
C36_OneEntryPerKey ==
    isTracking => \A key \in written : HasEntryOf(trackedKeys, key)

\* C37: transactWrite throws "Transaction request cannot include multiple
\* operations on one item" only for a request two of whose entries name the
\* same PK and SK.
C37_DuplicateOnlyWhenSameKey ==
    [][(/\ result'.op = "transactWrite"
        /\ result'.err = "ValidationException"
        /\ result'.msg = "MultipleOperations")
          => HasDuplicateTarget(result'.params.TransactItems)]_vars

\* C38: the snapshot has one entry for every stored item: as many keys as
\* the table holds items, each with the item whose PK and SK make its key.
C38_SnapshotHasEveryItem ==
    /\ Cardinality(DOMAIN snapshot(Table)) = Cardinality(DOMAIN itemStore)
    /\ \A itemKey \in DOMAIN itemStore :
          /\ compositeKey(itemStore[itemKey]["PK"], itemStore[itemKey]["SK"])
                 \in DOMAIN snapshot(Table)
          /\ snapshot(Table)[compositeKey(itemStore[itemKey]["PK"], itemStore[itemKey]["SK"])]
                 = cloneItem(itemStore[itemKey])


\* ---------------------------------------------------------------------
\* C39  rollback empties the journal and turns capture off.
\* ---------------------------------------------------------------------

\* No chunk of the rollback is rejected by batchWrite: the journal holds
\* string keys and items that get returned, so `trackedKeys.clear()` after
\* the awaited Promise.all is always reached.
RECURSIVE chunksRejected(_, _)
chunksRejected(table, chunks) ==
    IF Len(chunks) = 0 THEN FALSE
    ELSE \/ batchWrite(table, [RequestItems |-> Head(chunks), unsupported |-> FALSE]).err # "None"
         \/ chunksRejected(
                batchWrite(table, [RequestItems |-> Head(chunks), unsupported |-> FALSE]).table,
                Tail(chunks))

RollbackIsRejected ==
    \/ chunksRejected(Table,
           chunksOf(CHUNK_SIZE,
                    rollbackDeletes(SelectSeq(trackedKeys, LAMBDA e : e.original = Null))))
    \/ chunksRejected(Table,
           chunksOf(CHUNK_SIZE,
                    rollbackRestores(SelectSeq(trackedKeys, LAMBDA e : e.original # Null))))

RollbackNeverRejected == ~RollbackIsRejected

\* While capture is off the journal is empty: before the first
\* startTracking, after a rollback, and after any write made then.
JournalEmptyWhenOff == (~isTracking) => trackedKeys = <<>>

\* A rollback leaves capture off.
RollbackTurnsCaptureOff == result.op = "rollback" => ~isTracking

\* A rollback taken while capture is off (none before the first
\* startTracking, or a second one after a rollback) writes nothing.
RollbackWhenOffWritesNothing ==
    (~isTracking /\ result'.op = "rollback") => UNCHANGED <<itemStore, indexes>>

\* C39: a rollback leaves isTracking false and the journal empty; a rollback
\* with capture off (a second rollback, or one before any startTracking)
\* leaves the table as it is; a write made with capture off, after a
\* rollback, adds no journal entry.
C39_RollbackEmptiesJournal ==
    /\ [](JournalEmptyWhenOff /\ RollbackTurnsCaptureOff)
    /\ [][RollbackWhenOffWritesNothing]_vars

\* A put that succeeded with capture off, after a tracking period in which
\* keys were written (so after its rollback), and the journal is empty.
C39_Witness ==
    /\ result.op = "put"
    /\ result.err = "None"
    /\ ~isTracking
    /\ written # {}
    /\ trackedKeys = <<>>

\* ---------------------------------------------------------------------
\* C40  SET right-hand sides read the item as it was before the update;
\*      REMOVE comes after SET.
\* ---------------------------------------------------------------------

AssignedBy(expr) == {expr.set[i].attr : i \in 1..Len(expr.set)}
RemovedBy(expr) == {expr.remove[i] : i \in 1..Len(expr.remove)}

\* The last assignment of the SET clause that writes attr.
LastAssignmentTo(expr, attr) ==
    CHOOSE i \in 1..Len(expr.set) :
        /\ expr.set[i].attr = attr
        /\ \A j \in (i + 1)..Len(expr.set) : expr.set[j].attr # attr

\* The item update starts from: the stored one, or the bare key.
BaseOf(table, key) ==
    IF cloneItemByKey(table, key["PK"].s, key["SK"].s) = Null
    THEN [PK |-> key["PK"], SK |-> key["SK"]]
    ELSE cloneItemByKey(table, key["PK"].s, key["SK"].s)

\* after is base with every assigned attribute holding its right-hand side
\* as base gives it, the removed attributes absent, the others untouched.
AssignedFromBase(base, expr, after) ==
    /\ DOMAIN after = (DOMAIN base \cup AssignedBy(expr)) \ RemovedBy(expr)
    /\ \A attr \in AssignedBy(expr) \ RemovedBy(expr) :
          after[attr] = resolveUpdateSetValueToken(
                            expr.set[LastAssignmentTo(expr, attr)].rhs, base)
    /\ \A attr \in DOMAIN base \ (AssignedBy(expr) \cup RemovedBy(expr)) :
          after[attr] = base[attr]

UpdateReadsItemBefore ==
    (/\ result'.op = "update"
     /\ result'.err = "None"
     /\ result'.params \in AssignParams)
    => AssignedFromBase(BaseOf(Table, result'.params.Key),
                        result'.params.UpdateExpression,
                        BaseOf(Table', result'.params.Key))

\* C40: an update that succeeds stores the item it found with every SET
\* attribute holding its right-hand side evaluated on the item as it was
\* before the update, whatever the other assignments of the expression
\* write, and with every REMOVE attribute absent, also one a SET assignment
\* of the same expression wrote.
C40_SetReadsItemBefore == [][UpdateReadsItemBefore]_vars

\* `SET a = :v, b = a` with :v = 0 has resolved: a is 0 and b is not, it
\* holds what a held before.
C40_Witness ==
    /\ result.op = "update"
    /\ result.err = "None"
    /\ result.params \in AssignParams
    /\ result.params.UpdateExpression
          = [set |-> <<Assignment("a", Value(N(0))), Assignment("b", Path("a"))>>,
             remove |-> <<>>]
    /\ result.out # Null
    /\ result.out["a"] = N(0)
    /\ result.out["b"] # N(0)
=============================================================================
